---- MODULE Spec2Model ----
(***************************************************************************)
(* Model of the document-tree mutation engine of quanta-chat               *)
(* (server/plugins/docs/DocMod.ts): seven request handlers acting on a     *)
(* filesystem tree whose sibling order is encoded in a numeric name        *)
(* prefix.                                                                 *)
(*                                                                         *)
(* A JavaScript string is a sequence of one-character strings.  An         *)
(* absolute path is a sequence of segments (each a string); the            *)
(* filesystem is a function from the absolute paths that exist to nodes.   *)
(***************************************************************************)
EXTENDS Integers, Sequences, FiniteSets, TLC

VARIABLES
    fs,     \* the filesystem: absolute path -> node
    pre,    \* the filesystem as it was when the last request arrived
    call,   \* the last request: handler name and body fields
    res,    \* the response sent for the last request
    log,    \* the filesystem calls the last request issued, in order
    nops,   \* number of requests handled so far
    sent,   \* number of responses the last request produced
    thrown, \* whether the last request let an exception reach its caller
    tasks   \* the requests the server has accepted, each with how far it has run

vars == <<fs, pre, call, res, log, nops, sent, thrown, tasks>>

(***************************************************************************)
(* Bounds of the model.                                                    *)
(***************************************************************************)
MaxOps == 2         \* requests handled in one behaviour
MaxItems == 2       \* longest pasteItems / fileNames / filenames list

(***************************************************************************)
(* Strings.                                                                *)
(***************************************************************************)
Digits == <<"0", "1", "2", "3", "4", "5", "6", "7", "8", "9">>

IsDigit(c) == \E i \in 1..10 : Digits[i] = c

DigitVal(c) == (CHOOSE i \in 1..10 : Digits[i] = c) - 1

\* s.indexOf(c), 1-based; 0 when c does not occur (JavaScript's -1)
IndexOf(s, c) ==
    IF \E i \in 1..Len(s) : s[i] = c
    THEN CHOOSE i \in 1..Len(s) : s[i] = c /\ \A j \in 1..(i - 1) : s[j] # c
    ELSE 0

LastIndexOf(s, c) ==
    IF \E i \in 1..Len(s) : s[i] = c
    THEN CHOOSE i \in 1..Len(s) : s[i] = c /\ \A j \in (i + 1)..Len(s) : s[j] # c
    ELSE 0

\* s.substring(from) with a 1-based first position
From(s, i) == IF i > Len(s) THEN <<>> ELSE SubSeq(s, i, Len(s))

\* s.substring(0, n): the first n characters
Upto(s, n) == IF n <= 0 THEN <<>> ELSE SubSeq(s, 1, IF n > Len(s) THEN Len(s) ELSE n)

StartsWith(s, p) == Len(p) <= Len(s) /\ SubSeq(s, 1, Len(p)) = p

IsWhite(c) == c \in {" ", "\n"}

\* String.prototype.trim
RECURSIVE TrimLeft(_)
TrimLeft(s) == IF s # <<>> /\ IsWhite(Head(s)) THEN TrimLeft(Tail(s)) ELSE s

RECURSIVE TrimRight(_)
TrimRight(s) ==
    IF s # <<>> /\ IsWhite(s[Len(s)]) THEN TrimRight(SubSeq(s, 1, Len(s) - 1)) ELSE s

Trim(s) == TrimRight(TrimLeft(s))

\* s.split(d) for a non-empty delimiter d: the sequence of parts
RECURSIVE SplitOn(_, _, _)
SplitOn(s, d, cur) ==
    IF s = <<>> THEN <<cur>>
    ELSE IF StartsWith(s, d) THEN <<cur>> \o SplitOn(From(s, Len(d) + 1), d, <<>>)
    ELSE SplitOn(Tail(s), d, Append(cur, Head(s)))

Split(s, d) == SplitOn(s, d, <<>>)

\* parts.join(sep)
RECURSIVE JoinWith(_, _)
JoinWith(parts, sep) ==
    IF parts = <<>> THEN <<>>
    ELSE IF Len(parts) = 1 THEN parts[1]
    ELSE parts[1] \o sep \o JoinWith(Tail(parts), sep)

\* decimal digits of n, most significant first
RECURSIVE ToDigits(_)
ToDigits(n) == IF n < 10 THEN <<Digits[n + 1]>> ELSE Append(ToDigits(n \div 10), Digits[(n % 10) + 1])

\* n.toString().padStart(4, '0')
RECURSIVE PadStart(_, _, _)
PadStart(s, w, c) == IF Len(s) >= w THEN s ELSE PadStart(<<c>> \o s, w, c)

OrdinalWidth == 4

PadOrdinal(n) == PadStart(ToDigits(n), OrdinalWidth, "0")

\* parseInt of a non-empty all-digit string
RECURSIVE ParseDigits(_)
ParseDigits(s) ==
    IF s = <<>> THEN 0 ELSE ParseDigits(SubSeq(s, 1, Len(s) - 1)) * 10 + DigitVal(s[Len(s)])

AllDigits(s) == s # <<>> /\ \A i \in 1..Len(s) : IsDigit(s[i])

\* collation rank of the characters that occur in names (punctuation before
\* digits before letters), as String.prototype.localeCompare orders them
CharOrder == <<"_", ".", "/", "0", "1", "2", "3", "4", "5", "6", "7", "8", "9",
               "a", "b", "c", "d", "e", "f", "m", "n", "p", "q", "r", "s", "t", "x", "y", "z">>

CharRank(c) == CHOOSE i \in 1..Len(CharOrder) : CharOrder[i] = c

\* a.localeCompare(b) < 0
RECURSIVE StrLess(_, _)
StrLess(a, b) ==
    IF b = <<>> THEN FALSE
    ELSE IF a = <<>> THEN TRUE
    ELSE IF Head(a) = Head(b) THEN StrLess(Tail(a), Tail(b))
    ELSE CharRank(Head(a)) < CharRank(Head(b))

\* the elements of a finite set of strings as a sorted sequence
RECURSIVE SortStrings(_)
SortStrings(S) ==
    IF S = {} THEN <<>>
    ELSE LET m == CHOOSE x \in S : \A y \in S \ {x} : StrLess(x, y)
         IN <<m>> \o SortStrings(S \ {m})

(***************************************************************************)
(* Paths (Node's posix path module).                                       *)
(***************************************************************************)
\* the non-empty segments of a string split on "/"
Segs(s) == SelectSeq(Split(s, <<"/">>), LAMBDA x : x # <<>>)

DotDot == <<".", ".">>

\* path.normalize of an absolute path given as segments
RECURSIVE NormFrom(_, _)
NormFrom(acc, segs) ==
    IF segs = <<>> THEN acc
    ELSE LET h == Head(segs)
         IN IF h = <<".">> THEN NormFrom(acc, Tail(segs))
            ELSE IF h = DotDot
                 THEN NormFrom(IF acc = <<>> THEN acc ELSE SubSeq(acc, 1, Len(acc) - 1), Tail(segs))
            ELSE NormFrom(Append(acc, h), Tail(segs))

\* path.join(abs, s): abs an absolute normalized path, s a caller string
PJoin(abs, s) == NormFrom(abs, Segs(s))

\* path.dirname / path.basename of an absolute normalized path
Parent(p) == IF p = <<>> THEN <<>> ELSE SubSeq(p, 1, Len(p) - 1)

Last(p) == IF p = <<>> THEN <<>> ELSE p[Len(p)]

\* path.dirname of a caller string (not normalized)
Dirname(s) ==
    LET i == LastIndexOf(s, "/")
    IN IF i = 0 THEN <<".">> ELSE IF i = 1 THEN <<"/">> ELSE Upto(s, i - 1)

\* path.basename of a caller string
Basename(s) == From(s, LastIndexOf(s, "/") + 1)

\* path.extname(s) is non-empty
HasExt(s) == LET b == Basename(s) IN b # DotDot /\ LastIndexOf(b, ".") > 1

\* an absolute path as a string
PathStr(p) == IF p = <<>> THEN <<"/">> ELSE <<"/">> \o JoinWith(p, <<"/">>)

\* p is q or lies below q
IsWithin(p, q) == StartsWith(p, q)

(***************************************************************************)
(* The filesystem and Node's synchronous fs calls.  A machine m carries    *)
(* the filesystem, the log of calls issued, the pending exception and the  *)
(* position in the log of the one call that is made to fail (0: none).     *)
(***************************************************************************)
DirNode == [dir |-> TRUE, content |-> <<>>]

FileNode(c) == [dir |-> FALSE, content |-> c]

Exists(f, p) == p \in DOMAIN f

IsDir(f, p) == p \in DOMAIN f /\ f[p].dir

IsFile(f, p) == p \in DOMAIN f /\ ~f[p].dir

\* the names of the entries of directory d (fs.readdirSync)
Readdir(f, d) == {Last(p) : p \in {q \in DOMAIN f : Len(q) = Len(d) + 1 /\ IsWithin(q, d)}}

Subtree(f, p) == {q \in DOMAIN f : IsWithin(q, p)}

Start(f) == [fs |-> f, log |-> <<>>, ex |-> "none", fault |-> 0, halt |-> 0]

\* the run of a request whose body names the call that fails, or the change
\* after which the process stops
Begin(f, b) == [Start(f) EXCEPT !.fault = b.fault, !.halt = b.halt]

\* a call in the log; over: a rename or a write found an entry under its
\* destination name
Entry(op, src, dst, ok) == [op |-> op, src |-> src, dst |-> dst, ok |-> ok, over |-> FALSE]

\* the call m is about to issue is the one made to fail
Hit(m) == m.fault = Len(m.log) + 1

\* the calls that change the tree, as opposed to those that only read it
Mutating == {"rename", "write", "unlink", "rm", "mkdir"}

\* a call that throws when it fails; the process stops once the change
\* numbered m.halt is made
Issue(m, e, f2) ==
    LET ok == e.ok /\ ~Hit(m)
        made == Cardinality({i \in 1..Len(m.log) : m.log[i].ok /\ m.log[i].op \in Mutating}) + 1
    IN [m EXCEPT !.fs = IF ok THEN f2 ELSE m.fs,
                 !.log = Append(m.log, [e EXCEPT !.ok = ok,
                                                 !.over = e.op \in {"rename", "write"}
                                                         /\ Exists(m.fs, e.dst)]),
                 !.ex = IF ~ok THEN "io"
                        ELSE IF e.op \in Mutating /\ m.halt = made THEN "halt"
                        ELSE "none"]

\* a loop body without a catch of its own
Rethrown(m) == m

\* a catch inside a loop: the exception is dealt with, a stopped process stays stopped
Caught(m) == IF m.ex = "halt" THEN m ELSE [m EXCEPT !.ex = "none"]

\* fs.existsSync: never throws, a failure reads as false
ExistsSync(m, p) ==
    IF m.ex # "none" THEN m
    ELSE [m EXCEPT !.log = Append(m.log, Entry("exists", p, p, ~Hit(m)))]

\* what fs.existsSync(p) issued on m returns
ExistsResult(m, p) == ~Hit(m) /\ Exists(m.fs, p)

\* fs.statSync
StatSync(m, p) ==
    IF m.ex # "none" THEN m ELSE Issue(m, Entry("stat", p, p, Exists(m.fs, p)), m.fs)

\* fs.readdirSync
ReaddirSync(m, d) ==
    IF m.ex # "none" THEN m ELSE Issue(m, Entry("readdir", d, d, IsDir(m.fs, d)), m.fs)

\* fs.readFileSync
ReadFileSync(m, p) ==
    IF m.ex # "none" THEN m ELSE Issue(m, Entry("read", p, p, IsFile(m.fs, p)), m.fs)

RenameOk(f, src, dst) ==
    /\ src # <<>> /\ dst # <<>>
    /\ Exists(f, src)
    /\ IsDir(f, Parent(dst))
    /\ \/ src = dst
       \/ /\ ~IsWithin(dst, src)
          /\ ~IsWithin(src, dst)
          /\ Exists(f, dst) => /\ f[src].dir = f[dst].dir
                               /\ Subtree(f, dst) = {dst}

Moved(f, src, dst) ==
    IF src = dst THEN f
    ELSE LET gone == Subtree(f, src) \cup Subtree(f, dst)
             new == {dst \o From(q, Len(src) + 1) : q \in Subtree(f, src)}
         IN [q \in (DOMAIN f \ gone) \cup new |->
                IF q \in new THEN f[src \o From(q, Len(dst) + 1)] ELSE f[q]]

\* fs.renameSync
Rename(m, src, dst) ==
    IF m.ex # "none" THEN m
    ELSE Issue(m, Entry("rename", src, dst, RenameOk(m.fs, src, dst)), Moved(m.fs, src, dst))

\* fs.writeFileSync
WriteFile(m, p, c) ==
    IF m.ex # "none" THEN m
    ELSE Issue(m, Entry("write", p, p, p # <<>> /\ IsDir(m.fs, Parent(p)) /\ ~IsDir(m.fs, p)),
               [q \in DOMAIN m.fs \cup {p} |-> IF q = p THEN FileNode(c) ELSE m.fs[q]])

\* fs.unlinkSync
Unlink(m, p) ==
    IF m.ex # "none" THEN m
    ELSE Issue(m, Entry("unlink", p, p, IsFile(m.fs, p)),
               [q \in DOMAIN m.fs \ {p} |-> m.fs[q]])

\* fs.rmSync(p, { recursive: true, force: true })
RmRecursive(m, p) ==
    IF m.ex # "none" THEN m
    ELSE Issue(m, Entry("rm", p, p, p # <<>>),
               [q \in DOMAIN m.fs \ Subtree(m.fs, p) |-> m.fs[q]])

Prefixes(p) == {SubSeq(p, 1, n) : n \in 0..Len(p)}

\* fs.mkdirSync(p, { recursive: true })
Mkdir(m, p) ==
    IF m.ex # "none" THEN m
    ELSE Issue(m, Entry("mkdir", p, p, \A q \in Prefixes(p) : ~IsFile(m.fs, q)),
               [q \in DOMAIN m.fs \cup Prefixes(p) |-> IF q \in DOMAIN m.fs THEN m.fs[q] ELSE DirNode])

\* docUtil.checkFileAccess(p, root): throws unless p is root or below it
checkFileAccess(m, p, root) ==
    IF m.ex # "none" THEN m
    ELSE IF IsWithin(p, root) THEN m
    ELSE [m EXCEPT !.ex = "access"]

(***************************************************************************)
(* DocUtil: the ordinal codec and the shift.                               *)
(***************************************************************************)
\* parse(name): split on the first "_"; no ordinal when there is no "_" or
\* the prefix is not a number
ParseName(name) ==
    LET i == IndexOf(name, "_")
    IN IF i > 1 /\ AllDigits(Upto(name, i - 1))
       THEN [ok |-> TRUE, ordinal |-> ParseDigits(Upto(name, i - 1)), base |-> From(name, i + 1)]
       ELSE [ok |-> FALSE, ordinal |-> 0, base |-> name]

\* format(n): n zero-padded to four digits, then "_"
FormatOrdinal(n) == PadOrdinal(n) \o <<"_">>

\* a name of the ordered sequence: at least four digits, then "_"
isOrdinalName(name) == ParseName(name).ok /\ IndexOf(name, "_") > OrdinalWidth

\* docUtil.getOrdinalFromName(name): the number, or an exception
getOrdinalFromName(m, name) ==
    IF m.ex # "none" \/ ParseName(name).ok THEN m ELSE [m EXCEPT !.ex = "io"]

\* a path below root as the root-relative string the handlers exchange
RelStr(p, root) == JoinWith(From(p, Len(root) + 1), <<"/">>)

\* a shift that walks the entries in ascending order
ShiftNextAscending(S) ==
    CHOOSE x \in S : \A y \in S \ {x} :
        \/ ParseName(x).ordinal < ParseName(y).ordinal
        \/ ParseName(y).ordinal = ParseName(x).ordinal /\ StrLess(x, y)

\* the entry of S processed first: highest ordinal, then highest name
ShiftNext(S) ==
    CHOOSE x \in S : \A y \in S \ {x} :
        \/ ParseName(y).ordinal < ParseName(x).ordinal
        \/ ParseName(y).ordinal = ParseName(x).ordinal /\ StrLess(y, x)

RECURSIVE ShiftLoop(_, _, _, _, _, _)
ShiftLoop(st, todo, n, dir, from, root) ==
    IF todo = {} \/ st.m.ex # "none" THEN st
    ELSE LET x == ShiftNext(todo)
             old == Append(dir, x)
             new == Append(dir, FormatOrdinal(ParseName(x).ordinal + n) \o ParseName(x).base)
             m1 == Rename(checkFileAccess(checkFileAccess(st.m, old, root), new, root), old, new)
             map1 == IF m1.ex = "none" /\ IsDir(st.m.fs, old)
                     THEN Append(st.map, <<RelStr(old, root), RelStr(new, root)>>)
                     ELSE st.map
         IN ShiftLoop([m |-> m1, map |-> map1], todo \ {x}, n, dir, from, root)

\* docUtil.shiftOrdinalsDown(n, dir, from, root, ignore): [m, map]
shiftOrdinalsDown(m, n, dir, from, root, ignore) ==
    IF m.ex # "none" THEN [m |-> m, map |-> <<>>]
    ELSE IF ReaddirSync(m, dir).ex # "none" THEN [m |-> ReaddirSync(m, dir), map |-> <<>>]
    ELSE ShiftLoop([m |-> ReaddirSync(m, dir), map |-> <<>>],
                   {x \in Readdir(m.fs, dir) :
                        isOrdinalName(x) /\ ParseName(x).ordinal >= from /\ x \notin ignore},
                   n, dir, from, root)

(***************************************************************************)
(* Requests and responses.                                                 *)
(***************************************************************************)
NoBody ==
    [op |-> "none", treeFolder |-> <<>>, filename |-> <<>>, content |-> <<>>,
     newFileName |-> <<>>, split |-> FALSE, names |-> <<>>, direction |-> "",
     targetOrdinal |-> <<>>, folderName |-> <<>>, n |-> 0, from |-> 0, fault |-> 0, halt |-> 0,
     itemsKind |-> "list"]

Resp(status, kind) ==
    [status |-> status, kind |-> kind, success |-> FALSE, count |-> 0, total |-> 0,
     errors |-> <<>>, names |-> <<>>, map |-> <<>>]

Success == [Resp(200, "Success") EXCEPT !.success = TRUE]

\* svrUtil.handleError: the response for an exception caught at the boundary
handleError(ex) ==
    IF ex = "access" THEN Resp(403, "AccessDenied") ELSE Resp(500, "ServerError")

\* a boundary without a catch: a pending exception goes to the caller
FinishUncaught(m, r) ==
    [fs |-> m.fs, log |-> m.log, res |-> IF m.ex = "none" THEN r ELSE Resp(0, "none"),
     sent |-> IF m.ex = "none" THEN 1 ELSE 0, thrown |-> m.ex \notin {"none", "halt"}]

\* the outcome of a handler: an exception pending in m reaches the catch,
\* which answers it; every path of a handler ends in one response
Finish(m, r) ==
    [fs |-> m.fs, log |-> m.log,
     res |-> IF m.ex = "none" THEN r ELSE IF m.ex = "halt" THEN Resp(0, "none") ELSE handleError(m.ex),
     sent |-> IF m.ex = "halt" THEN 0 ELSE 1, thrown |-> FALSE]

SplitDelimiter == <<"\n", "~", "\n">>

MdExt == <<".", "m", "d">>

(***************************************************************************)
(* saveFile                                                                *)
(***************************************************************************)
\* the file of the part at 0-based index i
PartFilePath(final, originalOrdinal, i) ==
    LET originalBaseName == Last(final)
        nameAfterUnderscore == From(originalBaseName, IndexOf(originalBaseName, "_"))
    IN IF i > 0
       THEN Append(Parent(final), PadOrdinal(originalOrdinal + i) \o nameAfterUnderscore)
       ELSE final

\* a split that writes each part as it was cut
PartContentRaw(part) == part

\* what is written for a part
PartContent(part) == Trim(part)

RECURSIVE WriteParts(_, _, _, _, _, _)
WriteParts(m, parts, i, final, originalOrdinal, root) ==
    IF i > Len(parts) \/ m.ex # "none" THEN m
    ELSE LET partFilePath == PartFilePath(final, originalOrdinal, i - 1)
             m1 == WriteFile(checkFileAccess(m, partFilePath, root), partFilePath,
                             PartContent(parts[i]))
         IN WriteParts(m1, parts, i + 1, final, originalOrdinal, root)

\* a split that writes the partitions first and makes room afterwards
SaveContentWriteFirst(m, b, final, root) ==
    LET parts == Split(b.content, SplitDelimiter)
    IN IF b.split /\ Len(parts) > 1
       THEN LET m1 == getOrdinalFromName(m, Last(final))
                originalOrdinal == ParseName(Last(final)).ordinal
                wr == WriteParts(m1, parts, 1, final, originalOrdinal, root)
            IN Finish(shiftOrdinalsDown(wr, Len(parts) - 1, Parent(final),
                                        originalOrdinal + 1, root, {}).m, Success)
       ELSE Finish(WriteFile(m, final, b.content), Success)

SaveContent(m, b, final, root) ==
    LET parts == Split(b.content, SplitDelimiter)
    IN IF b.split /\ Len(parts) > 1
       THEN LET m1 == getOrdinalFromName(m, Last(final))
                originalOrdinal == ParseName(Last(final)).ordinal
                sh == shiftOrdinalsDown(m1, Len(parts) - 1, Parent(final),
                                        originalOrdinal + 1, root, {})
            IN Finish(WriteParts(sh.m, parts, 1, final, originalOrdinal, root), Success)
       ELSE Finish(WriteFile(m, final, b.content), Success)

saveFile(f, root, b) ==
    LET newFileName ==
            IF b.newFileName # <<>> /\ ~HasExt(b.newFileName)
            THEN b.newFileName \o MdExt ELSE b.newFileName
        folder == PJoin(root, b.treeFolder)
        file == PJoin(folder, b.filename)
        newPath == PJoin(folder, newFileName)
        renaming == newFileName # <<>> /\ newFileName # b.filename
        m0 == checkFileAccess(Begin(f, b), folder, root)
        m1 == ExistsSync(m0, folder)
        m2 == StatSync(m1, folder)
        m3 == ExistsSync(m2, file)
        m4 == ExistsSync(m3, newPath)
        m5 == IF ~renaming THEN m2
              ELSE IF ~ExistsResult(m2, file) THEN m3
              ELSE Rename(checkFileAccess(m4, file, root), file, newPath)
        final == IF renaming THEN newPath ELSE file
    IN IF b.filename = <<>> \/ b.treeFolder = <<>> THEN Finish(Begin(f, b), Resp(400, "BadRequest"))
       ELSE IF m0.ex # "none" THEN Finish(m0, Success)
       ELSE IF ~ExistsResult(m0, folder) THEN Finish(m1, Resp(404, "NotFound"))
       ELSE IF m2.ex # "none" THEN Finish(m2, Success)
       ELSE IF ~IsDir(f, folder) THEN Finish(m2, Resp(400, "NotADirectory"))
       ELSE IF renaming /\ ExistsResult(m2, file) /\ ExistsResult(m3, newPath)
            THEN Finish(m4, Resp(409, "Conflict"))
       ELSE IF m5.ex # "none" THEN Finish(m5, Success)
       ELSE SaveContent(checkFileAccess(m5, final, root), b, final, root)

(***************************************************************************)
(* renameFolder                                                            *)
(***************************************************************************)
\* a handler that renames before it has looked at what the old name is
renameFolderLateStat(f, root, b) ==
    LET parent == PJoin(root, b.treeFolder)
        old == PJoin(parent, b.filename)
        new == PJoin(parent, b.newFileName)
        m0 == Begin(f, b)
        m1 == ExistsSync(m0, parent)
        m2 == ExistsSync(m1, old)
        m3 == Rename(m2, old, new)
    IN IF b.filename = <<>> \/ b.newFileName = <<>> \/ b.treeFolder = <<>>
       THEN Finish(m0, Resp(400, "BadRequest"))
       ELSE IF ~ExistsResult(m0, parent) THEN Finish(m1, Resp(404, "NotFound"))
       ELSE IF ~ExistsResult(m1, old) THEN Finish(m2, Resp(404, "NotFound"))
       ELSE IF m3.ex # "none" THEN Finish(m3, Success)
       ELSE IF ~IsDir(f, old) THEN Finish(m3, Resp(400, "NotADirectory"))
       ELSE Finish(m3, Success)

\* a handler that compares the two names before it looks at the old entry
renameFolderEqualFirst(f, root, b) ==
    LET parent == PJoin(root, b.treeFolder)
        old == PJoin(parent, b.filename)
        new == PJoin(parent, b.newFileName)
        m0 == Begin(f, b)
        m1 == ExistsSync(m0, parent)
        m2 == ExistsSync(m1, old)
        m3 == StatSync(m2, old)
        m4 == ExistsSync(m3, new)
    IN IF b.filename = <<>> \/ b.newFileName = <<>> \/ b.treeFolder = <<>>
       THEN Finish(m0, Resp(400, "BadRequest"))
       ELSE IF ~ExistsResult(m0, parent) THEN Finish(m1, Resp(404, "NotFound"))
       ELSE IF ~ExistsResult(m1, old) THEN Finish(m2, Resp(404, "NotFound"))
       ELSE IF b.filename = b.newFileName THEN Finish(m2, Success)
       ELSE IF m3.ex # "none" THEN Finish(m3, Success)
       ELSE IF ~IsDir(f, old) THEN Finish(m3, Resp(400, "NotADirectory"))
       ELSE IF ExistsResult(m3, new) THEN Finish(m4, Resp(409, "Conflict"))
       ELSE Finish(Rename(checkFileAccess(checkFileAccess(m4, old, root), new, root), old, new),
                   Success)

renameFolder(f, root, b) ==
    LET parent == PJoin(root, b.treeFolder)
        old == PJoin(parent, b.filename)
        new == PJoin(parent, b.newFileName)
        m0 == Begin(f, b)
        m1 == ExistsSync(m0, parent)
        m2 == ExistsSync(m1, old)
        m3 == StatSync(m2, old)
        m4 == ExistsSync(m3, new)
    IN IF b.filename = <<>> \/ b.newFileName = <<>> \/ b.treeFolder = <<>>
       THEN Finish(m0, Resp(400, "BadRequest"))
       ELSE IF ~ExistsResult(m0, parent) THEN Finish(m1, Resp(404, "NotFound"))
       ELSE IF ~ExistsResult(m1, old) THEN Finish(m2, Resp(404, "NotFound"))
       ELSE IF m3.ex # "none" THEN Finish(m3, Success)
       ELSE IF ~IsDir(f, old) THEN Finish(m3, Resp(400, "NotADirectory"))
       ELSE IF b.filename = b.newFileName THEN Finish(m3, Success)
       ELSE IF ExistsResult(m3, new) THEN Finish(m4, Resp(409, "Conflict"))
       ELSE Finish(Rename(checkFileAccess(checkFileAccess(m4, old, root), new, root), old, new),
                   Success)

(***************************************************************************)
(* deleteFileOrFolder                                                      *)
(***************************************************************************)
ItemError(why, item) == [why |-> why, item |-> item]

\* a loop body that gives up after the first item that failed
DeleteOneFailFast(st, parent, fileName, root) ==
    LET target == PJoin(parent, fileName)
        m1 == ExistsSync(st.m, target)
        m2 == checkFileAccess(StatSync(m1, target), target, root)
        m3 == IF IsDir(st.m.fs, target) THEN RmRecursive(m2, target) ELSE Unlink(m2, target)
    IN IF st.errors # <<>> \/ ~ExistsResult(st.m, target) \/ m3.ex # "none"
       THEN [st EXCEPT !.errors = Append(@, ItemError("Failed", fileName))]
       ELSE [m |-> m3, count |-> st.count + 1, errors |-> st.errors]

\* one pass of the loop body, its own try/catch included: [m, count, errors]
DeleteOne(st, parent, fileName, root) ==
    LET target == PJoin(parent, fileName)
        m1 == ExistsSync(st.m, target)
        m2 == checkFileAccess(StatSync(m1, target), target, root)
        m3 == IF IsDir(st.m.fs, target) THEN RmRecursive(m2, target) ELSE Unlink(m2, target)
    IN IF ~ExistsResult(st.m, target)
       THEN [st EXCEPT !.m = m1, !.errors = Append(@, ItemError("NotFound", fileName))]
       ELSE IF m3.ex = "none"
       THEN [m |-> m3, count |-> st.count + 1, errors |-> st.errors]
       ELSE [m |-> Caught(m3), count |-> st.count,
             errors |-> Append(st.errors, ItemError("Failed", fileName))]

\* a loop that renumbers the entries that are left once the items are gone
RECURSIVE DeleteLoopRenumber(_, _, _, _, _)
DeleteLoopRenumber(st, parent, items, i, root) ==
    IF i > Len(items)
    THEN [st EXCEPT !.m = shiftOrdinalsDown(st.m, 1, parent, 0, root, {}).m]
    ELSE DeleteLoopRenumber(DeleteOne(st, parent, items[i], root), parent, items, i + 1, root)

RECURSIVE DeleteLoop(_, _, _, _, _)
DeleteLoop(st, parent, items, i, root) ==
    IF i > Len(items) THEN st
    ELSE DeleteLoop(DeleteOne(st, parent, items[i], root), parent, items, i + 1, root)

deleteFileOrFolder(f, root, b) ==
    LET itemsToDelete == b.names
        parent == PJoin(root, b.treeFolder)
        m0 == Begin(f, b)
        m1 == ExistsSync(m0, parent)
        st == DeleteLoop([m |-> m1, count |-> 0, errors |-> <<>>],
                         parent, itemsToDelete, 1, root)
    IN IF itemsToDelete = <<>> \/ b.treeFolder = <<>> THEN Finish(m0, Resp(400, "BadRequest"))
       ELSE IF ~ExistsResult(m0, parent) THEN Finish(m1, Resp(404, "NotFound"))
       ELSE IF Len(itemsToDelete) = 1
            THEN IF st.count = 1 THEN Finish(st.m, Success)
                 ELSE Finish(st.m, [Resp(500, "ServerError") EXCEPT !.errors = st.errors])
       ELSE Finish(st.m, [Success EXCEPT !.count = st.count, !.total = Len(itemsToDelete),
                                         !.errors = st.errors])

(***************************************************************************)
(* moveUpOrDown                                                            *)
(***************************************************************************)
\* the reading of Date.now() that enters a temporary name: the clock has
\* moved on between two requests
DateNow == ToDigits(nops + 1)

Underscore == <<"_">>

\* a temporary name that reads as an ordinal name
TempPrefixOrdinal == <<"0", "0", "0", "0", "_">>

TempPrefix == <<"t", "e", "m", "p", "_">>

IndexIn(seq, x) == IF \E i \in 1..Len(seq) : seq[i] = x
                   THEN CHOOSE i \in 1..Len(seq) : seq[i] = x ELSE 0

\* a listing sorted with the comparison turned round
NumberedFilesDescending(f, dir) ==
    LET up == SortStrings({x \in Readdir(f, dir) : ParseName(x).ok})
    IN [i \in 1..Len(up) |-> up[Len(up) + 1 - i]]

\* the entries matching /^\d+_/, sorted with localeCompare
NumberedFiles(f, dir) == SortStrings({x \in Readdir(f, dir) : ParseName(x).ok})

\* a swap that exchanges the base names instead of the prefixes
SwappedNameKeepsPrefix(file, other) ==
    Upto(file, IndexOf(file, "_")) \o From(other, IndexOf(other, "_") + 1)

\* a swap that leaves each entry the name it has
SwappedNameUnchanged(file, other) == file

\* the name of one entry after it takes the other's ordinal prefix
SwappedName(file, other) ==
    Upto(other, IndexOf(other, "_")) \o From(file, IndexOf(file, "_") + 1)

moveUpOrDown(f, root, b) ==
    LET parent == PJoin(root, b.treeFolder)
        m0 == ExistsSync(Begin(f, b), parent)
        m1 == ReaddirSync(checkFileAccess(m0, parent, root), parent)
        numberedFiles == NumberedFiles(f, parent)
        currentIndex == IndexIn(numberedFiles, b.filename)
        targetIndex == IF b.direction = "up" THEN currentIndex - 1 ELSE currentIndex + 1
        currentFile == numberedFiles[currentIndex]
        targetFile == numberedFiles[targetIndex]
        newCurrentName == SwappedName(currentFile, targetFile)
        newTargetName == SwappedName(targetFile, currentFile)
        currentPath == Append(parent, currentFile)
        targetPath == Append(parent, targetFile)
        tempPath == Append(parent, TempPrefix \o DateNow \o Underscore \o currentFile)
        m2 == checkFileAccess(checkFileAccess(checkFileAccess(m1, currentPath, root),
                                              targetPath, root), tempPath, root)
        m3 == Rename(m2, currentPath, tempPath)
        m4 == Rename(m3, targetPath, Append(parent, newTargetName))
        m5 == Rename(m4, tempPath, Append(parent, newCurrentName))
    IN IF b.filename = <<>> \/ b.treeFolder = <<>> \/ b.direction \notin {"up", "down"}
       THEN Finish(Begin(f, b), Resp(400, "BadRequest"))
       ELSE IF ~ExistsResult(Begin(f, b), parent) THEN Finish(m0, Resp(404, "NotFound"))
       ELSE IF m1.ex # "none" THEN Finish(m1, Success)
       ELSE IF currentIndex = 0 THEN Finish(m1, Resp(404, "NotFound"))
       ELSE IF b.direction = "up" /\ currentIndex = 1 THEN Finish(m1, Resp(400, "Boundary"))
       ELSE IF b.direction = "down" /\ currentIndex = Len(numberedFiles)
            THEN Finish(m1, Resp(400, "Boundary"))
       ELSE Finish(m5, [Success EXCEPT
                !.names = <<currentFile, newCurrentName, targetFile, newTargetName>>])

(***************************************************************************)
(* pasteItems                                                              *)
(***************************************************************************)
TempPastePrefix == <<"t", "e", "m", "p", "_", "p", "a", "s", "t", "e", "_">>

\* parseInt(s): the leading digits; nan when there is none
ParseInt(s) ==
    LET n == IF \E i \in 1..Len(s) : ~IsDigit(s[i])
             THEN (CHOOSE i \in 1..Len(s) : ~IsDigit(s[i]) /\ \A j \in 1..(i - 1) : IsDigit(s[j])) - 1
             ELSE Len(s)
    IN IF n = 0 THEN [nan |-> TRUE, val |-> 0] ELSE [nan |-> FALSE, val |-> ParseDigits(Upto(s, n))]

InsertOrdinal(targetOrdinal) ==
    LET underscoreIndex == IndexOf(targetOrdinal, "_") - 1
        num == ParseInt(Upto(targetOrdinal, underscoreIndex))
    IN IF targetOrdinal # <<>> /\ underscoreIndex > 0 /\ ~num.nan THEN num.val + 1 ELSE 0

NameWithoutPrefix(itemName) ==
    IF IndexOf(itemName, "_") > 0 THEN From(itemName, IndexOf(itemName, "_") + 1) ELSE itemName

OrdinalName(ordinal, itemName) == PadOrdinal(ordinal) \o Underscore \o NameWithoutPrefix(itemName)

\* the item's directory is the target folder, as the handler compares them
IsFromFolder(itemFullPath, targetFolder) ==
    LET itemDir == Dirname(itemFullPath)
        itemDirNormalized == IF itemDir = <<".">> THEN <<>> ELSE itemDir
        targetFolderNormalized == IF targetFolder = <<"/">> THEN <<>> ELSE targetFolder
    IN itemDirNormalized = targetFolderNormalized

\* a paste that parks no item before the shift
TempLoopSkip(st, items, i, b, insertOrdinal, root) == st

\* first loop: same-folder items go to temporary names: [m, tempMoves]
RECURSIVE TempLoop(_, _, _, _, _, _)
TempLoop(st, items, i, b, insertOrdinal, root) ==
    IF i > Len(items) \/ st.m.ex # "none" THEN st
    ELSE LET itemFullPath == items[i]
             itemName == Basename(itemFullPath)
             sourceFilePath == PJoin(root, itemFullPath)
             target == PJoin(root, b.treeFolder)
             tempName == TempPastePrefix \o DateNow \o Underscore \o ToDigits(i - 1)
                         \o Underscore \o itemName
             tempPath == Append(target, tempName)
             m1 == ExistsSync(st.m, sourceFilePath)
         IN IF IsFromFolder(itemFullPath, b.treeFolder) /\ ExistsResult(st.m, sourceFilePath)
            THEN TempLoop([m |-> Rename(m1, sourceFilePath, tempPath),
                           tempMoves |-> Append(st.tempMoves,
                               [tempPath |-> tempPath, originalName |-> Last(sourceFilePath),
                                finalName |-> OrdinalName(insertOrdinal + (i - 1), itemName)])],
                          items, i + 1, b, insertOrdinal, root)
            ELSE IF IsFromFolder(itemFullPath, b.treeFolder)
            THEN TempLoop([st EXCEPT !.m = m1], items, i + 1, b, insertOrdinal, root)
            ELSE TempLoop(st, items, i + 1, b, insertOrdinal, root)

\* a paste that moves the items from the paths the caller gave
RemapNothing(originalPath, pathMapping) == originalPath

\* one paste item after the shift, rewritten through the path mapping
Remap(originalPath, pathMapping) ==
    LET normalized == IF StartsWith(originalPath, <<"/">>) THEN From(originalPath, 2) ELSE originalPath
        hits == {k \in 1..Len(pathMapping) :
                    \/ StartsWith(normalized, pathMapping[k][1] \o <<"/">>)
                    \/ normalized = pathMapping[k][1]}
        k == CHOOSE j \in hits : \A l \in hits : j <= l
        newNormalized == pathMapping[k][2] \o From(normalized, Len(pathMapping[k][1]) + 1)
    IN IF hits = {} THEN originalPath
       ELSE IF StartsWith(originalPath, <<"/">>) THEN <<"/">> \o newNormalized ELSE newNormalized

\* a loop body that counts the item before it renames it
MoveOneCountFirst(st, itemFullPath, i, b, insertOrdinal, tempMoves, root) ==
    LET target == PJoin(root, b.treeFolder)
        found == {k \in 1..Len(tempMoves) : tempMoves[k].originalName = Basename(itemFullPath)}
        tempMove == tempMoves[CHOOSE k \in found : \A l \in found : k <= l]
        sourceFilePath == PJoin(root, itemFullPath)
        targetFileName == OrdinalName(insertOrdinal + (i - 1), Basename(itemFullPath))
        targetFilePath == Append(target, targetFileName)
        viaTemp == IsFromFolder(itemFullPath, b.treeFolder) /\ tempMoves # <<>>
        e1 == ExistsSync(st.m, sourceFilePath)
        e2 == ExistsSync(e1, targetFilePath)
        m1 == IF viaTemp
              THEN Rename(st.m, tempMove.tempPath, Append(target, tempMove.finalName))
              ELSE Rename(e2, sourceFilePath, targetFilePath)
    IN IF viaTemp /\ found = {}
       THEN [st EXCEPT !.errors = Append(@, ItemError("NoTemp", itemFullPath))]
       ELSE IF ~viaTemp /\ ~ExistsResult(st.m, sourceFilePath)
       THEN [st EXCEPT !.m = e1, !.errors = Append(@, ItemError("NotFound", itemFullPath))]
       ELSE IF ~viaTemp /\ ExistsResult(e1, targetFilePath)
       THEN [st EXCEPT !.m = e2, !.errors = Append(@, ItemError("Conflict", targetFileName))]
       ELSE IF m1.ex = "none" THEN [m |-> m1, count |-> st.count + 1, errors |-> st.errors]
       ELSE [m |-> Caught(m1), count |-> st.count + 1,
             errors |-> Append(st.errors, ItemError("Failed", itemFullPath))]

\* one pass of the move loop, its own try/catch included
MoveOne(st, itemFullPath, i, b, insertOrdinal, tempMoves, root) ==
    LET target == PJoin(root, b.treeFolder)
        found == {k \in 1..Len(tempMoves) : tempMoves[k].originalName = Basename(itemFullPath)}
        tempMove == tempMoves[CHOOSE k \in found : \A l \in found : k <= l]
        sourceFilePath == PJoin(root, itemFullPath)
        targetFileName == OrdinalName(insertOrdinal + (i - 1), Basename(itemFullPath))
        targetFilePath == Append(target, targetFileName)
        viaTemp == IsFromFolder(itemFullPath, b.treeFolder) /\ tempMoves # <<>>
        e1 == ExistsSync(st.m, sourceFilePath)
        e2 == ExistsSync(e1, targetFilePath)
        m1 == IF viaTemp
              THEN Rename(st.m, tempMove.tempPath, Append(target, tempMove.finalName))
              ELSE Rename(e2, sourceFilePath, targetFilePath)
    IN IF viaTemp /\ found = {}
       THEN [st EXCEPT !.errors = Append(@, ItemError("NoTemp", itemFullPath))]
       ELSE IF ~viaTemp /\ ~ExistsResult(st.m, sourceFilePath)
       THEN [st EXCEPT !.m = e1, !.errors = Append(@, ItemError("NotFound", itemFullPath))]
       ELSE IF ~viaTemp /\ ExistsResult(e1, targetFilePath)
       THEN [st EXCEPT !.m = e2, !.errors = Append(@, ItemError("Conflict", targetFileName))]
       ELSE IF m1.ex = "none" THEN [m |-> m1, count |-> st.count + 1, errors |-> st.errors]
       ELSE [m |-> Caught(m1), count |-> st.count,
             errors |-> Append(st.errors, ItemError("Failed", itemFullPath))]

RECURSIVE MoveLoop(_, _, _, _, _, _, _)
MoveLoop(st, items, i, b, insertOrdinal, tempMoves, root) ==
    IF i > Len(items) THEN st
    ELSE MoveLoop(MoveOne(st, items[i], i, b, insertOrdinal, tempMoves, root),
                  items, i + 1, b, insertOrdinal, tempMoves, root)

\* a paste that does not make room for the items before it moves them
pasteItemsNoShift(f, root, b) ==
    LET items == SortStrings({b.names[i] : i \in 1..Len(b.names)})
        target == PJoin(root, b.treeFolder)
        m0 == checkFileAccess(Begin(f, b), target, root)
        m1 == ExistsSync(m0, target)
        insertOrdinal == InsertOrdinal(b.targetOrdinal)
        isSameFolderOperation == \E i \in 1..Len(items) : IsFromFolder(items[i], b.treeFolder)
        tmp == IF isSameFolderOperation
               THEN TempLoop([m |-> m1, tempMoves |-> <<>>], items, 1, b, insertOrdinal, root)
               ELSE [m |-> m1, tempMoves |-> <<>>]
        sh == [m |-> tmp.m, map |-> <<>>]
        remapped == [i \in 1..Len(items) |-> Remap(items[i], sh.map)]
        st == MoveLoop([m |-> sh.m, count |-> 0, errors |-> <<>>], remapped, 1, b,
                       insertOrdinal, tmp.tempMoves, root)
    IN IF b.itemsKind # "list" THEN Finish([Begin(f, b) EXCEPT !.ex = "type"], Success)
       ELSE IF b.treeFolder = <<>> \/ b.names = <<>> THEN Finish(Begin(f, b), Resp(400, "BadRequest"))
       ELSE IF m0.ex # "none" THEN Finish(m0, Success)
       ELSE IF ~ExistsResult(m0, target) THEN Finish(m1, Resp(404, "NotFound"))
       ELSE IF sh.m.ex # "none" THEN Finish(sh.m, Success)
       ELSE Finish(st.m, [Resp(200, "Success") EXCEPT !.success = st.count > 0,
                             !.count = st.count, !.total = Len(items), !.errors = st.errors])

\* pasteItems.sort(...) comes first: it throws a TypeError when the field is
\* missing or is no array, before the fields are validated
pasteItems(f, root, b) ==
    LET items == SortStrings({b.names[i] : i \in 1..Len(b.names)})
        target == PJoin(root, b.treeFolder)
        m0 == checkFileAccess(Begin(f, b), target, root)
        m1 == ExistsSync(m0, target)
        insertOrdinal == InsertOrdinal(b.targetOrdinal)
        isSameFolderOperation == \E i \in 1..Len(items) : IsFromFolder(items[i], b.treeFolder)
        tmp == IF isSameFolderOperation
               THEN TempLoop([m |-> m1, tempMoves |-> <<>>], items, 1, b, insertOrdinal, root)
               ELSE [m |-> m1, tempMoves |-> <<>>]
        sh == shiftOrdinalsDown(tmp.m, Len(items), target, insertOrdinal, root, {})
        remapped == [i \in 1..Len(items) |-> Remap(items[i], sh.map)]
        st == MoveLoop([m |-> sh.m, count |-> 0, errors |-> <<>>], remapped, 1, b,
                       insertOrdinal, tmp.tempMoves, root)
    IN IF b.itemsKind # "list" THEN Finish([Begin(f, b) EXCEPT !.ex = "type"], Success)
       ELSE IF b.treeFolder = <<>> \/ b.names = <<>> THEN Finish(Begin(f, b), Resp(400, "BadRequest"))
       ELSE IF m0.ex # "none" THEN Finish(m0, Success)
       ELSE IF ~ExistsResult(m0, target) THEN Finish(m1, Resp(404, "NotFound"))
       ELSE IF sh.m.ex # "none" THEN Finish(sh.m, Success)
       ELSE Finish(st.m, [Resp(200, "Success") EXCEPT !.success = st.count > 0,
                             !.count = st.count, !.total = Len(items), !.errors = st.errors])

(***************************************************************************)
(* joinFiles                                                               *)
(***************************************************************************)
JoinSeparator == <<"\n", "\n">>

\* fileData.sort((a, b) => a.ordinal - b.ordinal): a stable sort
RECURSIVE InsertByOrdinal(_, _)
InsertByOrdinal(sorted, d) ==
    IF sorted = <<>> THEN <<d>>
    ELSE IF d.ordinal < Head(sorted).ordinal THEN <<d>> \o sorted
    ELSE <<Head(sorted)>> \o InsertByOrdinal(Tail(sorted), d)

RECURSIVE SortByOrdinal(_)
SortByOrdinal(data) ==
    IF data = <<>> THEN <<>>
    ELSE InsertByOrdinal(SortByOrdinal(SubSeq(data, 1, Len(data) - 1)), data[Len(data)])

\* the reading loop: [m, missing, fileData]
RECURSIVE ReadLoop(_, _, _, _, _)
ReadLoop(st, folder, filenames, i, root) ==
    IF i > Len(filenames) \/ st.m.ex # "none" \/ st.missing THEN st
    ELSE LET filename == filenames[i]
             path == PJoin(folder, filename)
             m1 == checkFileAccess(st.m, path, root)
             m2 == getOrdinalFromName(ExistsSync(m1, path), filename)
             m3 == ReadFileSync(m2, path)
             content == IF m3.ex = "none" THEN st.m.fs[path].content ELSE <<>>
         IN IF m1.ex # "none" THEN [st EXCEPT !.m = m1]
            ELSE IF ~ExistsResult(m1, path) THEN [st EXCEPT !.m = ExistsSync(m1, path), !.missing = TRUE]
            ELSE IF m2.ex # "none" THEN [st EXCEPT !.m = m2]
            ELSE ReadLoop([m |-> Caught(m3), missing |-> FALSE,
                           fileData |-> Append(st.fileData,
                               [filename |-> filename, ordinal |-> ParseName(filename).ordinal,
                                content |-> content])],
                          folder, filenames, i + 1, root)

\* the clean-up loop, each unlink in its own try/catch: [m, deletedFiles]
RECURSIVE UnlinkLoop(_, _, _, _, _)
UnlinkLoop(st, folder, fileData, i, root) ==
    IF i > Len(fileData) THEN st
    ELSE LET path == PJoin(folder, fileData[i].filename)
             m1 == Unlink(checkFileAccess(st.m, path, root), path)
         IN UnlinkLoop(IF m1.ex = "none"
                       THEN [m |-> m1, deletedFiles |-> Append(st.deletedFiles, fileData[i].filename)]
                       ELSE [m |-> Caught(m1), deletedFiles |-> st.deletedFiles],
                       folder, fileData, i + 1, root)

joinFiles(f, root, b) ==
    LET folder == PJoin(root, b.treeFolder)
        m0 == checkFileAccess(Begin(f, b), folder, root)
        rd == ReadLoop([m |-> m0, missing |-> FALSE, fileData |-> <<>>], folder, b.names, 1, root)
        fileData == SortByOrdinal(rd.fileData)
        joinedContent == JoinWith([i \in 1..Len(fileData) |-> fileData[i].content], JoinSeparator)
        firstFilePath == PJoin(folder, fileData[1].filename)
        m1 == WriteFile(checkFileAccess(rd.m, firstFilePath, root), firstFilePath, joinedContent)
        ul == UnlinkLoop([m |-> m1, deletedFiles |-> <<>>], folder, fileData, 2, root)
    IN IF Len(b.names) < 2 THEN Finish(Begin(f, b), Resp(400, "BadRequest"))
       ELSE IF b.treeFolder = <<>> THEN Finish(Begin(f, b), Resp(400, "BadRequest"))
       ELSE IF rd.m.ex # "none" THEN Finish(rd.m, Success)
       ELSE IF rd.missing THEN Finish(rd.m, Resp(404, "NotFound"))
       ELSE IF m1.ex # "none" THEN Finish(m1, Success)
       ELSE Finish(ul.m, [Success EXCEPT !.names = <<fileData[1].filename>> \o ul.deletedFiles])

(***************************************************************************)
(* makeFolder                                                              *)
(***************************************************************************)
MaxFolderNameLength == 140

ContentFileName == <<"0", "0", "0", "1", "_", "f", "i", "l", "e", ".", "m", "d">>

\* the folder keeps the ordinal prefix of the file it replaces
NewFolderName(filename, folderName) == Upto(filename, IndexOf(filename, "_")) \o folderName

\* a conversion that deletes the file before it looks for a name conflict
makeFolderDeleteFirst(f, root, b) ==
    LET folder == PJoin(root, b.treeFolder)
        file == PJoin(folder, b.filename)
        m0 == checkFileAccess(Begin(f, b), folder, root)
        e1 == ExistsSync(m0, folder)
        e2 == ExistsSync(e1, file)
        e3 == StatSync(e2, file)
        newFolderName == NewFolderName(b.filename, b.folderName)
        newFolderPath == PJoin(folder, newFolderName)
        m1 == Unlink(checkFileAccess(e3, file, root), file)
        e4 == ExistsSync(m1, newFolderPath)
        m2 == Mkdir(checkFileAccess(e4, newFolderPath, root), newFolderPath)
        newFilePath == Append(newFolderPath, ContentFileName)
        m3 == IF Trim(b.content) # <<>>
              THEN WriteFile(checkFileAccess(m2, newFilePath, root), newFilePath, b.content)
              ELSE m2
    IN IF b.filename = <<>> \/ b.folderName = <<>> \/ b.treeFolder = <<>>
       THEN Finish(Begin(f, b), Resp(400, "BadRequest"))
       ELSE IF Len(b.folderName) > MaxFolderNameLength
       THEN Finish(Begin(f, b), Resp(400, "BadRequest"))
       ELSE IF m0.ex # "none" THEN Finish(m0, Success)
       ELSE IF ~ExistsResult(m0, folder) THEN Finish(e1, Resp(404, "NotFound"))
       ELSE IF ~ExistsResult(e1, file) THEN Finish(e2, Resp(404, "NotFound"))
       ELSE IF e3.ex # "none" THEN Finish(e3, Success)
       ELSE IF ~IsFile(f, file) THEN Finish(e3, Resp(400, "NotAFile"))
       ELSE IF m1.ex # "none" THEN Finish(m1, Success)
       ELSE IF ExistsResult(m1, newFolderPath) THEN Finish(e4, Resp(409, "Conflict"))
       ELSE Finish(m3, [Success EXCEPT !.names = <<newFolderName>>])

\* a conversion whose conflict check looks for a folder of the new name only
makeFolderFolderConflict(f, root, b) ==
    LET folder == PJoin(root, b.treeFolder)
        file == PJoin(folder, b.filename)
        m0 == checkFileAccess(Begin(f, b), folder, root)
        e1 == ExistsSync(m0, folder)
        e2 == ExistsSync(e1, file)
        e3 == StatSync(e2, file)
        newFolderName == NewFolderName(b.filename, b.folderName)
        newFolderPath == PJoin(folder, newFolderName)
        e4 == ExistsSync(e3, newFolderPath)
        m1 == Unlink(checkFileAccess(e4, file, root), file)
        m2 == Mkdir(checkFileAccess(m1, newFolderPath, root), newFolderPath)
        newFilePath == Append(newFolderPath, ContentFileName)
        m3 == IF Trim(b.content) # <<>>
              THEN WriteFile(checkFileAccess(m2, newFilePath, root), newFilePath, b.content)
              ELSE m2
    IN IF b.filename = <<>> \/ b.folderName = <<>> \/ b.treeFolder = <<>>
       THEN Finish(Begin(f, b), Resp(400, "BadRequest"))
       ELSE IF Len(b.folderName) > MaxFolderNameLength
       THEN Finish(Begin(f, b), Resp(400, "BadRequest"))
       ELSE IF m0.ex # "none" THEN Finish(m0, Success)
       ELSE IF ~ExistsResult(m0, folder) THEN Finish(e1, Resp(404, "NotFound"))
       ELSE IF ~ExistsResult(e1, file) THEN Finish(e2, Resp(404, "NotFound"))
       ELSE IF e3.ex # "none" THEN Finish(e3, Success)
       ELSE IF ~IsFile(f, file) THEN Finish(e3, Resp(400, "NotAFile"))
       ELSE IF ExistsResult(e3, newFolderPath) /\ IsDir(f, newFolderPath)
            THEN Finish(e4, Resp(409, "Conflict"))
       ELSE Finish(m3, [Success EXCEPT !.names = <<newFolderName>>])

makeFolder(f, root, b) ==
    LET folder == PJoin(root, b.treeFolder)
        file == PJoin(folder, b.filename)
        m0 == checkFileAccess(Begin(f, b), folder, root)
        e1 == ExistsSync(m0, folder)
        e2 == ExistsSync(e1, file)
        e3 == StatSync(e2, file)
        newFolderName == NewFolderName(b.filename, b.folderName)
        newFolderPath == PJoin(folder, newFolderName)
        e4 == ExistsSync(e3, newFolderPath)
        m1 == Unlink(checkFileAccess(e4, file, root), file)
        m2 == Mkdir(checkFileAccess(m1, newFolderPath, root), newFolderPath)
        newFilePath == Append(newFolderPath, ContentFileName)
        m3 == IF Trim(b.content) # <<>>
              THEN WriteFile(checkFileAccess(m2, newFilePath, root), newFilePath, b.content)
              ELSE m2
    IN IF b.filename = <<>> \/ b.folderName = <<>> \/ b.treeFolder = <<>>
       THEN Finish(Begin(f, b), Resp(400, "BadRequest"))
       ELSE IF Len(b.folderName) > MaxFolderNameLength
       THEN Finish(Begin(f, b), Resp(400, "BadRequest"))
       ELSE IF m0.ex # "none" THEN Finish(m0, Success)
       ELSE IF ~ExistsResult(m0, folder) THEN Finish(e1, Resp(404, "NotFound"))
       ELSE IF ~ExistsResult(e1, file) THEN Finish(e2, Resp(404, "NotFound"))
       ELSE IF e3.ex # "none" THEN Finish(e3, Success)
       ELSE IF ~IsFile(f, file) THEN Finish(e3, Resp(400, "NotAFile"))
       ELSE IF ExistsResult(e3, newFolderPath) THEN Finish(e4, Resp(409, "Conflict"))
       ELSE Finish(m3, [Success EXCEPT !.names = <<newFolderName>>])

(***************************************************************************)
(* The tree at start and the requests callers send.                        *)
(***************************************************************************)
\* the configured document root, /r
Root == << <<"r">> >>

Outside == << <<"e", "t", "c">> >>

NameA == <<"0", "0", "0", "1", "_", "a">>
NameB == <<"0", "0", "0", "2", "_", "b", ".", "m", "d">>
NameD == <<"0", "0", "0", "3", "_", "d">>
NameX == <<"0", "0", "0", "1", "_", "x">>
NameP == <<"0", "0", "0", "1", "_", "p">>
NameN == <<"n">>

InitialTree ==
    LET D == {<<>>, Outside, Append(Outside, NameP), Root,
              Append(Root, NameA), Append(Root, NameB), Append(Root, NameD), Append(Root, NameN),
              Root \o <<NameD, NameX>>}
    IN [p \in D |->
          IF p = Append(Outside, NameP) THEN FileNode(<<"P">>)
          ELSE IF p = Append(Root, NameA) THEN FileNode(<<"A">>)
          ELSE IF p = Append(Root, NameB) THEN FileNode(<<"B">>)
          ELSE IF p = Append(Root, NameN) THEN FileNode(<<"N">>)
          ELSE IF p = Root \o <<NameD, NameX>> THEN FileNode(<<"X">>)
          ELSE DirNode]

Init ==
    /\ fs = InitialTree
    /\ pre = InitialTree
    /\ call = NoBody
    /\ res = Resp(0, "none")
    /\ log = <<>>
    /\ nops = 0
    /\ sent = 0
    /\ thrown = FALSE
    /\ tasks = <<>>

\* the folders a caller names: the root as "/", a folder of the root by name
TreeFolders == {<<"/">>} \cup {x \in Readdir(fs, Root) : IsDir(fs, Append(Root, x))}

Entries(treeFolder) == Readdir(fs, PJoin(Root, treeFolder))

\* names a caller may send that are not in the tree
MissingName == <<"0", "0", "0", "9", "_", "q">>
DupName == <<"0", "0", "0", "2", "_", "c">>
EscapeName == <<".", ".", "/", "e", "t", "c", "/", "0", "0", "0", "1", "_", "p">>
EscapeNew == <<".", ".", "/", "e", "t", "c", "/", "0", "0", "0", "9", "_", "q">>
EscapeFolder == <<"/", ".", ".", "/", ".", ".", "/", "e">>
NewFolder == <<"f">>
SlashFolder == <<"f", "/", "g">>

ContentPlain == <<"C">>
ContentTwo == <<"X", "\n", "~", "\n", "Y">>
ContentThree == <<" ", "X", "\n", "~", "\n", "Y", " ", "\n", "~", "\n", "Z">>
ContentBlank == <<" ">>

\* the sequences of 1..MaxItems distinct elements of S
RECURSIVE ListsOf(_, _)
ListsOf(S, n) ==
    IF n = 0 THEN {<<>>}
    ELSE LET shorter == ListsOf(S, n - 1)
         IN shorter \cup {Append(l, x) : l \in {k \in shorter : Len(k) = n - 1},
                                        x \in S} 

DistinctLists(S, n) ==
    {l \in ListsOf(S, n) : l # <<>> /\ \A i, j \in 1..Len(l) : i # j => l[i] # l[j]}

\* the root-relative path string of an entry of a folder
ItemPath(treeFolder, name) ==
    IF treeFolder = <<"/">> THEN name ELSE treeFolder \o <<"/">> \o name

\* the outcome of a handler becomes the state of the server
Answer(out, b) ==
    /\ fs' = out.fs
    /\ pre' = fs
    /\ call' = b
    /\ res' = out.res
    /\ log' = out.log
    /\ nops' = nops + 1
    /\ sent' = out.sent
    /\ thrown' = out.thrown

\* a request handled as it arrives
Handle(out, b) == Answer(out, b) /\ tasks' = tasks

\* a saveFile request whose k-th filesystem call fails (none when k = 0)
SaveFileReq(k) ==
    /\ nops < MaxOps
    /\ \E tf \in TreeFolders :
       \E fn \in {x \in Entries(tf) : IsFile(fs, PJoin(Root, ItemPath(tf, x)))} \cup {DupName} :
       \E cs \in {<<ContentPlain, FALSE>>, <<ContentPlain, TRUE>>, <<ContentTwo, TRUE>>,
                  <<ContentThree, TRUE>>, <<ContentTwo, FALSE>>} :
       \E nn \in {<<>>, <<"0", "0", "0", "2", "_", "b">>, MissingName, EscapeNew} :
           /\ nn # <<>> => cs \in {<<ContentPlain, FALSE>>, <<ContentTwo, TRUE>>}
           /\ LET b == [NoBody EXCEPT !.op = "saveFile", !.fault = k, !.treeFolder = tf, !.filename = fn,
                                      !.content = cs[1], !.split = cs[2], !.newFileName = nn]
              IN Handle(saveFile(fs, Root, b), b)

SaveFile == SaveFileReq(0)

\* a renameFolder request whose k-th filesystem call fails (none when k = 0)
RenameFolderReq(k) ==
    /\ nops < MaxOps
    /\ \E tf \in TreeFolders :
       \E old \in Entries(tf) \cup {MissingName} :
       \E new \in Entries(tf) \cup {<<"0", "0", "0", "1", "_", "e">>, EscapeFolder} :
           LET b == [NoBody EXCEPT !.op = "renameFolder", !.fault = k, !.treeFolder = tf, !.filename = old,
                                   !.newFileName = new]
           IN Handle(renameFolder(fs, Root, b), b)

RenameFolder == RenameFolderReq(0)

\* a deleteFileOrFolder request whose k-th filesystem call fails (none when k = 0)
DeleteFileOrFolderReq(k) ==
    /\ nops < MaxOps
    /\ \E tf \in TreeFolders :
       \E l \in ListsOf(Entries(tf) \cup {MissingName, EscapeName}, MaxItems) \ {<<>>} :
           LET b == [NoBody EXCEPT !.op = "deleteFileOrFolder", !.fault = k, !.treeFolder = tf, !.names = l]
           IN Handle(deleteFileOrFolder(fs, Root, b), b)

DeleteFileOrFolder == DeleteFileOrFolderReq(0)

\* a moveUpOrDown request whose k-th filesystem call fails (none when k = 0)
MoveUpOrDownReq(k) ==
    /\ nops < MaxOps
    /\ \E tf \in TreeFolders :
       \E fn \in Entries(tf) \cup {MissingName} :
       \E d \in {"up", "down", "left"} :
           /\ d = "left" => fn = MissingName
           /\ LET b == [NoBody EXCEPT !.op = "moveUpOrDown", !.fault = k, !.treeFolder = tf, !.filename = fn,
                                      !.direction = d]
              IN Handle(moveUpOrDown(fs, Root, b), b)

MoveUpOrDown == MoveUpOrDownReq(0)

\* the paths a caller may cut: the ordinal entries of the root and of its
\* folders, as root-relative strings
PasteCandidates ==
    {ItemPath(tf, x) : tf \in TreeFolders, x \in {y \in Readdir(fs, Root) \cup
        UNION {Readdir(fs, Append(Root, d)) : d \in Readdir(fs, Root)} : ParseName(y).ok}}

ExistingCandidates == {c \in PasteCandidates : Exists(fs, PJoin(Root, c))}

\* the cut lists: existing items, one missing or escaping item, an existing
\* item with a missing one, and an item of the root written with a leading "/"
PasteSets ==
    {S \in SUBSET ExistingCandidates : S # {} /\ Cardinality(S) <= MaxItems}
    \cup {{MissingName}, {EscapeName}}
    \cup {{c, MissingName} : c \in ExistingCandidates}
    \cup {{<<"/">> \o c} : c \in {x \in Readdir(fs, Root) : ParseName(x).ok}}

\* bodies with a field missing or of the wrong kind: pasteItems missing, a
\* string, an empty list; targetFolder missing; both missing
BadPasteBodies ==
    <<[treeFolder |-> <<"/">>, names |-> <<>>, itemsKind |-> "missing"],
      [treeFolder |-> <<"/">>, names |-> <<>>, itemsKind |-> "string"],
      [treeFolder |-> <<"/">>, names |-> <<>>, itemsKind |-> "list"],
      [treeFolder |-> <<>>, names |-> <<NameA>>, itemsKind |-> "list"],
      [treeFolder |-> <<>>, names |-> <<>>, itemsKind |-> "missing"]>>

\* a pasteItems request whose k-th filesystem call fails (none when k = 0)
PasteItemsReq(k) ==
    /\ nops < MaxOps
    /\ \E bad \in 0..Len(BadPasteBodies) :
          IF bad = 0
          THEN \E tf \in TreeFolders :
               \E S \in PasteSets :
               \E to \in {<<>>} \cup {x \in Entries(tf) : ParseName(x).ok} :
                   LET b == [NoBody EXCEPT !.op = "pasteItems", !.fault = k, !.treeFolder = tf,
                                           !.names = SortStrings(S), !.targetOrdinal = to]
                   IN Handle(pasteItems(fs, Root, b), b)
          ELSE LET b == [NoBody EXCEPT !.op = "pasteItems", !.fault = k,
                                       !.treeFolder = BadPasteBodies[bad].treeFolder,
                                       !.names = BadPasteBodies[bad].names,
                                       !.itemsKind = BadPasteBodies[bad].itemsKind]
               IN Handle(pasteItems(fs, Root, b), b)

PasteItems == PasteItemsReq(0)

\* a joinFiles request whose k-th filesystem call fails (none when k = 0)
JoinFilesReq(k) ==
    /\ nops < MaxOps
    /\ \E tf \in TreeFolders :
       \E l \in ListsOf(Entries(tf), MaxItems) \ {<<>>} :
           LET b == [NoBody EXCEPT !.op = "joinFiles", !.fault = k, !.treeFolder = tf, !.names = l]
           IN Handle(joinFiles(fs, Root, b), b)

JoinFiles == JoinFilesReq(0)

\* a makeFolder request whose k-th filesystem call fails (none when k = 0)
MakeFolderReq(k) ==
    /\ nops < MaxOps
    /\ \E tf \in TreeFolders :
       \E fn \in Entries(tf) \cup {MissingName} :
       \E fc \in {<<NewFolder, <<>> >>, <<NewFolder, ContentBlank>>, <<NewFolder, ContentPlain>>,
                  <<EscapeFolder, ContentPlain>>, <<SlashFolder, ContentPlain>>,
                  <<NameWithoutPrefix(fn), <<>> >>} :
           LET b == [NoBody EXCEPT !.op = "makeFolder", !.fault = k, !.treeFolder = tf, !.filename = fn,
                                   !.folderName = fc[1], !.content = fc[2]]
           IN Handle(makeFolder(fs, Root, b), b)

MakeFolder == MakeFolderReq(0)

Next ==
    \/ SaveFile
    \/ RenameFolder
    \/ DeleteFileOrFolder
    \/ MoveUpOrDown
    \/ PasteItems
    \/ JoinFiles
    \/ MakeFolder

Spec == Init /\ [][Next]_vars

(***************************************************************************)
(* The shift on its own: shiftOrdinalsDown applied to a tree, from the     *)
(* tree at start or from that tree after a split of 0001_a in three.       *)
(***************************************************************************)
MaxShift == 2       \* largest n of a shift
MaxFrom == 4        \* largest fromOrdinal of a shift

SplitTree ==
    saveFile(InitialTree, Root,
             [NoBody EXCEPT !.op = "saveFile", !.treeFolder = <<"/">>, !.filename = NameA,
                            !.content = ContentThree, !.split = TRUE]).fs

ShiftInit ==
    /\ fs \in {InitialTree, SplitTree}
    /\ pre = fs
    /\ call = NoBody
    /\ res = Resp(0, "none")
    /\ log = <<>>
    /\ nops = 0
    /\ sent = 0
    /\ thrown = FALSE
    /\ tasks = <<>>

ShiftCall ==
    /\ nops < MaxOps
    /\ \E tf \in TreeFolders :
       \E n \in 1..MaxShift :
       \E from \in 0..MaxFrom :
           LET b == [NoBody EXCEPT !.op = "shift", !.treeFolder = tf, !.n = n, !.from = from]
               sh == shiftOrdinalsDown(Start(fs), n, PJoin(Root, tf), from, Root, {})
           IN Handle(Finish(sh.m, [Success EXCEPT !.map = sh.map]), b)

ShiftSpec == ShiftInit /\ [][ShiftCall]_vars

(***************************************************************************)
(* One request against the tree at start, one of its filesystem calls      *)
(* failing: the call is named by its place in the request's call sequence. *)
(***************************************************************************)
MaxFault == 12

\* the first request, with its k-th filesystem call failing
FaultNext ==
    \/ nops = 0 /\ \E k \in 1..MaxFault : SaveFileReq(k)
    \/ nops = 0 /\ \E k \in 1..MaxFault : RenameFolderReq(k)
    \/ nops = 0 /\ \E k \in 1..MaxFault : DeleteFileOrFolderReq(k)
    \/ nops = 0 /\ \E k \in 1..MaxFault : MoveUpOrDownReq(k)
    \/ nops = 0 /\ \E k \in 1..MaxFault : PasteItemsReq(k)
    \/ nops = 0 /\ \E k \in 1..MaxFault : JoinFilesReq(k)
    \/ nops = 0 /\ \E k \in 1..MaxFault : MakeFolderReq(k)

FaultSpec == ShiftInit /\ [][FaultNext]_vars

(***************************************************************************)
(* A swap during which the process stops, and the request that follows.    *)
(***************************************************************************)
\* the renames of the swap after which the process may stop
CrashPoints == {1, 2}

\* a move whose process stops after one of its first two renames
CrashedMoveUpOrDown ==
    /\ nops = 0
    /\ \E tf \in TreeFolders :
       \E fn \in Entries(tf) :
       \E d \in {"up", "down"} :
       \E h \in CrashPoints :
           LET b == [NoBody EXCEPT !.op = "moveUpOrDown", !.treeFolder = tf, !.filename = fn,
                                   !.direction = d, !.halt = h]
           IN Handle(moveUpOrDown(fs, Root, b), b)

CrashNext ==
    \/ CrashedMoveUpOrDown
    \/ nops = 1 /\ SaveFile
    \/ nops = 1 /\ RenameFolder
    \/ nops = 1 /\ DeleteFileOrFolder
    \/ nops = 1 /\ MoveUpOrDown
    \/ nops = 1 /\ PasteItems
    \/ nops = 1 /\ JoinFiles
    \/ nops = 1 /\ MakeFolder

CrashSpec == ShiftInit /\ [][CrashNext]_vars

(***************************************************************************)
(* One request against a tree whose prefixes test the width of four: the   *)
(* tree at start, that tree with its two files at 9998 and 9999, and that  *)
(* tree with a file under a prefix of two digits.                          *)
(***************************************************************************)
NameHighA == <<"9", "9", "9", "8", "_", "a">>
NameHighB == <<"9", "9", "9", "9", "_", "b", ".", "m", "d">>

HighTree ==
    Moved(Moved(InitialTree, Append(Root, NameA), Append(Root, NameHighA)),
          Append(Root, NameB), Append(Root, NameHighB))

\* the tree at start with its plain file under a two-digit prefix, 12_n
NameShort == <<"1", "2", "_", "n">>

ShortTree == Moved(InitialTree, Append(Root, NameN), Append(Root, NameShort))

WidthInit ==
    /\ fs \in {InitialTree, HighTree, ShortTree}
    /\ pre = fs
    /\ call = NoBody
    /\ res = Resp(0, "none")
    /\ log = <<>>
    /\ nops = 0
    /\ sent = 0
    /\ thrown = FALSE
    /\ tasks = <<>>

WidthNext ==
    \/ nops = 0 /\ SaveFile
    \/ nops = 0 /\ RenameFolder
    \/ nops = 0 /\ DeleteFileOrFolder
    \/ nops = 0 /\ MoveUpOrDown
    \/ nops = 0 /\ PasteItems
    \/ nops = 0 /\ JoinFiles
    \/ nops = 0 /\ MakeFolder

WidthSpec == WidthInit /\ [][WidthNext]_vars

(***************************************************************************)
(* Several requests accepted by one server process.  A handler is an       *)
(* async function: called, it runs until its first await or its end, and   *)
(* only then can another handler run.                                      *)
(***************************************************************************)
\* a swap that awaits after its first rename
AwaitsInSwap(op) == IF op = "moveUpOrDown" THEN {1} ELSE {}

\* the changes of the tree after which the handler of op awaits: the
\* handlers hold no await and call the synchronous fs functions only
Awaits(op) == {}

\* the handler a request is routed to
Dispatch(f, b) ==
    CASE b.op = "saveFile" -> saveFile(f, Root, b)
      [] b.op = "renameFolder" -> renameFolder(f, Root, b)
      [] b.op = "deleteFileOrFolder" -> deleteFileOrFolder(f, Root, b)
      [] b.op = "moveUpOrDown" -> moveUpOrDown(f, Root, b)
      [] b.op = "pasteItems" -> pasteItems(f, Root, b)
      [] b.op = "joinFiles" -> joinFiles(f, Root, b)
      [] OTHER -> makeFolder(f, Root, b)

\* the renames a handler had still to make when it awaited, made on the tree
\* it finds when it goes on; the first that fails ends it
RECURSIVE Replay(_, _)
Replay(f, rest) ==
    IF rest = <<>> THEN f
    ELSE IF Head(rest).op # "rename" THEN Replay(f, Tail(rest))
    ELSE IF RenameOk(f, Head(rest).src, Head(rest).dst)
         THEN Replay(Moved(f, Head(rest).src, Head(rest).dst), Tail(rest))
    ELSE f

\* the requests that arrive: one or more for each of the seven handlers
ConcBodies ==
    {[NoBody EXCEPT !.op = "moveUpOrDown", !.treeFolder = <<"/">>, !.filename = NameA,
                    !.direction = "down"],
     [NoBody EXCEPT !.op = "moveUpOrDown", !.treeFolder = <<"/">>, !.filename = NameD,
                    !.direction = "up"],
     [NoBody EXCEPT !.op = "deleteFileOrFolder", !.treeFolder = <<"/">>, !.names = <<NameB>>],
     [NoBody EXCEPT !.op = "saveFile", !.treeFolder = <<"/">>, !.filename = NameA,
                    !.content = ContentTwo, !.split = TRUE],
     [NoBody EXCEPT !.op = "renameFolder", !.treeFolder = <<"/">>, !.filename = NameD,
                    !.newFileName = <<"0", "0", "0", "1", "_", "e">>],
     [NoBody EXCEPT !.op = "pasteItems", !.treeFolder = <<"/">>,
                    !.names = <<ItemPath(NameD, NameX)>>, !.targetOrdinal = NameA],
     [NoBody EXCEPT !.op = "joinFiles", !.treeFolder = <<"/">>, !.names = <<NameA, NameB>>],
     [NoBody EXCEPT !.op = "makeFolder", !.treeFolder = <<"/">>, !.filename = NameA,
                    !.folderName = NewFolder, !.content = ContentPlain]}

\* a request is accepted and waits for its handler to be called
Arrive ==
    /\ Len(tasks) < MaxOps
    /\ \E b \in ConcBodies :
          tasks' = Append(tasks, [b |-> b, state |-> "waiting", rest |-> <<>>])
    /\ UNCHANGED <<fs, pre, call, res, log, nops, sent, thrown>>

\* the least mutation after which op yields, 0 when it never does
FirstYield(op) ==
    IF Awaits(op) = {} THEN 0 ELSE CHOOSE h \in Awaits(op) : \A g \in Awaits(op) : h <= g

\* task i takes the event loop: first is its run up to its first yield,
\* whole its run to the end
Run(i, first, whole) ==
    \/ /\ tasks[i].state = "waiting"
       /\ first.sent = 1
       /\ Answer(first, tasks[i].b)
       /\ tasks' = [tasks EXCEPT ![i].state = "done"]
    \/ /\ tasks[i].state = "waiting"
       /\ first.sent = 0
       /\ fs' = first.fs
       /\ tasks' = [tasks EXCEPT ![i].state = "awaiting",
                                 ![i].rest = SubSeq(whole.log, Len(first.log) + 1,
                                                    Len(whole.log))]
       /\ UNCHANGED <<pre, call, res, log, nops, sent, thrown>>

\* task i resumes after its yield and makes the renames it had still to make
Resume(i) ==
    /\ tasks[i].state = "awaiting"
    /\ Answer([fs |-> Replay(fs, tasks[i].rest), res |-> Success, log |-> tasks[i].rest,
               sent |-> 1, thrown |-> FALSE], tasks[i].b)
    /\ tasks' = [tasks EXCEPT ![i].state = "done"]

\* one turn of the event loop: a waiting handler is called and runs to its
\* first await or to its end, or a handler that awaited goes on to its end
Turn ==
    \E i \in 1..Len(tasks) :
        \/ Run(i, Dispatch(fs, [tasks[i].b EXCEPT !.halt = FirstYield(tasks[i].b.op)]),
                  Dispatch(fs, tasks[i].b))
        \/ Resume(i)

ConcNext ==
    \/ Arrive
    \/ Turn

ConcSpec == Init /\ [][ConcNext]_vars

(***************************************************************************)
(* Vocabulary of the properties.                                           *)
(***************************************************************************)
\* the folder the last request names
CallDir == PJoin(Root, call.treeFolder)

OrdinalEntries(f, d) == {x \in Readdir(f, d) : ParseName(x).ok}

\* no two entries of d share an ordinal
DistinctOrdinals(f, d) ==
    \A x, y \in OrdinalEntries(f, d) :
        x # y => ParseName(x).ordinal # ParseName(y).ordinal

\* no directory of the document tree holds two entries with one ordinal
UniqueTree(f) ==
    \A d \in {p \in DOMAIN f : IsWithin(p, Root) /\ f[p].dir} : DistinctOrdinals(f, d)

\* the last request completed successfully
Succeeded ==
    /\ nops > 0
    /\ res.kind = "Success"
    /\ call.op = "pasteItems" => res.success

\* where a path of the old tree lies after the moves M (pairs <<old, new>>)
ImageOf(p, M) ==
    IF \E mv \in M : IsWithin(p, mv[1])
    THEN LET mv == CHOOSE x \in M : IsWithin(p, x[1])
         IN mv[2] \o From(p, Len(mv[1]) + 1)
    ELSE p

\* f1 is f0 with exactly the entries of M moved, nothing lost or added
SameUpTo(f0, f1, M) ==
    /\ DOMAIN f1 = {ImageOf(p, M) : p \in DOMAIN f0}
    /\ Cardinality(DOMAIN f1) = Cardinality(DOMAIN f0)
    /\ \A p \in DOMAIN f0 : f1[ImageOf(p, M)] = f0[p]

\* the changes of the last request that took effect
Performed == {i \in 1..Len(log) : log[i].ok /\ log[i].op \in Mutating}

(***************************************************************************)
(* C1  Root containment.                                                   *)
(***************************************************************************)
\* C1: no rename, write, delete or mkdir of any of the seven handlers takes
\* effect on a source or destination outside Root, and a request answered
\* AccessDenied has mutated nothing.
C1_RootContainment ==
    /\ \A i \in Performed : IsWithin(log[i].src, Root) /\ IsWithin(log[i].dst, Root)
    /\ res.kind = "AccessDenied" => Performed = {}

(***************************************************************************)
(* C2  Ordinal uniqueness.                                                 *)
(***************************************************************************)
\* C2: a request that completes successfully on a tree in which no two
\* siblings share an ordinal leaves a tree in which no two siblings share an
\* ordinal.
C2_OrdinalUniqueness == (Succeeded /\ UniqueTree(pre)) => UniqueTree(fs)

(***************************************************************************)
(* C3  moveUpOrDown swaps the item with its neighbour.                     *)
(***************************************************************************)
MoveCase ==
    /\ call.op = "moveUpOrDown"
    /\ res.kind = "Success"
    /\ DistinctOrdinals(pre, CallDir)

\* C3: after a successful move of the item at sorted index i in a directory
\* with distinct ordinals, the item sits at the neighbouring index j with the
\* neighbour's ordinal and its own base name, the neighbour sits at i with
\* the item's ordinal and its own base name, every other entry of the tree is
\* as before, and the response names the two renames.
C3_MoveSwap ==
    MoveCase =>
        LET before == NumberedFiles(pre, CallDir)
            after == NumberedFiles(fs, CallDir)
            i == IndexIn(before, call.filename)
            j == IF call.direction = "up" THEN i - 1 ELSE i + 1
        IN /\ i > 0 /\ j \in 1..Len(before)
           /\ Len(after) = Len(before)
           /\ ParseName(after[j]).ordinal = ParseName(before[j]).ordinal
           /\ ParseName(after[j]).base = ParseName(before[i]).base
           /\ ParseName(after[i]).ordinal = ParseName(before[i]).ordinal
           /\ ParseName(after[i]).base = ParseName(before[j]).base
           /\ \A k \in 1..Len(before) : k \notin {i, j} => after[k] = before[k]
           /\ SameUpTo(pre, fs, {<<Append(CallDir, before[i]), Append(CallDir, after[j])>>,
                                 <<Append(CallDir, before[j]), Append(CallDir, after[i])>>})
           /\ res.names = <<before[i], after[j], before[j], after[i]>>

\* a move in a directory with a third ordinal entry and a non-ordinal one
C3_Witness ==
    /\ MoveCase
    /\ Len(NumberedFiles(pre, CallDir)) >= 3
    /\ Readdir(pre, CallDir) # OrdinalEntries(pre, CallDir)
    /\ fs # pre

(***************************************************************************)
(* C4  The postcondition of shiftOrdinalsDown.                             *)
(***************************************************************************)
ShiftCase ==
    /\ call.op = "shift"
    /\ DistinctOrdinals(pre, CallDir)

\* the entries a shift renames, with the names it gives them
ShiftMoves(f, d, n, from) ==
    {<<Append(d, x), Append(d, FormatOrdinal(ParseName(x).ordinal + n) \o ParseName(x).base)>> :
        x \in {y \in Readdir(f, d) : isOrdinalName(y) /\ ParseName(y).ordinal >= from}}

\* C4: after shiftOrdinalsDown(n, dir, from, root, null) on a directory with
\* distinct ordinals every ordinal entry at or above from has its ordinal
\* raised by n and keeps its base name and content, every other entry is
\* unchanged, and no two entries share a name or an ordinal.
C4_ShiftPostcondition ==
    ShiftCase =>
        /\ res.kind = "Success"
        /\ SameUpTo(pre, fs, ShiftMoves(pre, CallDir, call.n, call.from))
        /\ \A mv \in ShiftMoves(pre, CallDir, call.n, call.from) :
              /\ ParseName(Last(mv[2])).ordinal = ParseName(Last(mv[1])).ordinal + call.n
              /\ ParseName(Last(mv[2])).base = ParseName(Last(mv[1])).base
              /\ isOrdinalName(Last(mv[2]))
        /\ Cardinality(Readdir(fs, CallDir)) = Cardinality(Readdir(pre, CallDir))
        /\ DistinctOrdinals(fs, CallDir)

\* a shift that renames some entries, one of them to the name another of them
\* had, and leaves an ordinal entry below from and a non-ordinal entry alone
C4_Witness ==
    /\ ShiftCase
    /\ \E a, b \in ShiftMoves(pre, CallDir, call.n, call.from) : a # b /\ a[2] = b[1]
    /\ \E x \in OrdinalEntries(pre, CallDir) : ParseName(x).ordinal < call.from
    /\ Readdir(pre, CallDir) # OrdinalEntries(pre, CallDir)

(***************************************************************************)
(* C5  saveFile with split.                                                *)
(***************************************************************************)
\* the name the target has once saveFile has renamed it
FinalName ==
    LET nn == IF call.newFileName # <<>> /\ ~HasExt(call.newFileName)
              THEN call.newFileName \o MdExt ELSE call.newFileName
    IN IF nn # <<>> /\ nn # call.filename THEN nn ELSE call.filename

Partitions == Split(call.content, SplitDelimiter)

\* a successful split save of k >= 2 partitions on an ordinal-named target
SplitCase ==
    /\ call.op = "saveFile"
    /\ call.split
    /\ res.kind = "Success"
    /\ Len(Partitions) >= 2
    /\ IndexOf(call.filename, "/") = 0 /\ IndexOf(FinalName, "/") = 0
    /\ isOrdinalName(FinalName)

\* the name of sibling x after the split made room above ordinal o
AfterSplit(x, o, k) ==
    IF isOrdinalName(x) /\ ParseName(x).ordinal >= o + 1
    THEN FormatOrdinal(ParseName(x).ordinal + (k - 1)) \o ParseName(x).base
    ELSE x

\* the tree after a split whose partition i is stored as Stored(i)
SplitResult(Stored(_)) ==
    LET o == ParseName(FinalName).ordinal
        k == Len(Partitions)
        siblings == Readdir(pre, CallDir) \ {call.filename, FinalName}
        partName(i) == IF i = 0 THEN FinalName ELSE FormatOrdinal(o + i) \o ParseName(FinalName).base
    IN /\ \A i \in 0..(k - 1) :
             /\ IsFile(fs, Append(CallDir, partName(i)))
             /\ fs[Append(CallDir, partName(i))].content = Stored(i + 1)
       /\ \A x \in siblings :
             \A q \in Subtree(pre, Append(CallDir, x)) :
                LET q2 == Append(CallDir, AfterSplit(x, o, k)) \o From(q, Len(CallDir) + 2)
                IN q2 \in DOMAIN fs /\ fs[q2] = pre[q]
       /\ Readdir(fs, CallDir) =
             {AfterSplit(x, o, k) : x \in siblings} \cup {partName(i) : i \in 0..(k - 1)}
       /\ \A q \in DOMAIN pre : ~IsWithin(q, CallDir) => q \in DOMAIN fs /\ fs[q] = pre[q]
       /\ Cardinality(DOMAIN fs) =
             Cardinality(DOMAIN pre \ {Append(CallDir, call.filename), Append(CallDir, FinalName)}) + k

\* C5 as stated: the target and the new siblings hold the partitions as cut.
C5_SplitStoresPartitions ==
    SplitCase => SplitResult(LAMBDA i : Partitions[i])

\* C5 as amended: the target keeps its name and holds partition 1 trimmed,
\* the sibling with ordinal o+i and the target's base name holds partition i+1
\* trimmed, every sibling with an ordinal above o has it raised by k-1, and
\* every other entry is unchanged.
C5_SplitStoresTrimmedPartitions ==
    SplitCase => SplitResult(LAMBDA i : Trim(Partitions[i]))

\* a split in three with padded partitions, a sibling below the target and a
\* folder above it
C5_Witness ==
    /\ SplitCase
    /\ Len(Partitions) = 3
    /\ \E i \in 1..3 : Trim(Partitions[i]) # Partitions[i]
    /\ \E x \in OrdinalEntries(pre, CallDir) :
          ParseName(x).ordinal < ParseName(FinalName).ordinal
    /\ \E x \in OrdinalEntries(pre, CallDir) :
          /\ ParseName(x).ordinal > ParseName(FinalName).ordinal
          /\ IsDir(pre, Append(CallDir, x))

(***************************************************************************)
(* C6, C7  pasteItems.                                                     *)
(***************************************************************************)
\* the absolute path of paste item p of the last request
ItemAbs(p) == PJoin(Root, call.names[p])

\* a paste of existing, separate entries of the tree into a directory with
\* distinct ordinals that none of them contains
PasteCase ==
    /\ call.op = "pasteItems"
    /\ DistinctOrdinals(pre, CallDir)
    /\ \A p \in 1..Len(call.names) :
          /\ Exists(pre, ItemAbs(p))
          /\ IsWithin(ItemAbs(p), Root) /\ ItemAbs(p) # Root
          /\ isOrdinalName(Last(ItemAbs(p)))
          /\ ~IsWithin(CallDir, ItemAbs(p))
          /\ \A q \in 1..Len(call.names) : p # q => ~IsWithin(ItemAbs(q), ItemAbs(p))

\* the name item p gets when the first pasted ordinal is first
PastedName(first, p) ==
    FormatOrdinal(first + (p - 1)) \o ParseName(Last(ItemAbs(p))).base

\* the siblings of the target directory that are not pasted, in listing order,
\* each as its base name and content
Bystanders(f, names) ==
    LET listing == NumberedFiles(f, CallDir)
        kept == SelectSeq(listing, LAMBDA x : x \notin names)
    IN [j \in 1..Len(kept) |-> <<ParseName(kept[j]).base, f[Append(CallDir, kept[j])]>>]

\* the items sit in the target directory from ordinal first on, whole and in
\* paste-list order, and the other siblings keep their relative order
PastedFrom(first) ==
    LET k == Len(call.names)
        pasted == {PastedName(first, p) : p \in 1..k}
    IN /\ \A p \in 1..k :
             \A q \in Subtree(pre, ItemAbs(p)) :
                LET q2 == Append(CallDir, PastedName(first, p)) \o From(q, Len(ItemAbs(p)) + 1)
                IN q2 \in DOMAIN fs /\ fs[q2] = pre[q]
       /\ Bystanders(fs, pasted) =
             Bystanders(pre, {Last(ItemAbs(p)) : p \in {r \in 1..k : Parent(ItemAbs(r)) = CallDir}})

PasteAfterCase ==
    /\ PasteCase
    /\ call.targetOrdinal \in OrdinalEntries(pre, CallDir)
    /\ \A p \in 1..Len(call.names) : ItemAbs(p) # Append(CallDir, call.targetOrdinal)

\* C6: after a paste of k existing items with a targetOrdinal T that names a
\* sibling outside the paste set, the item at position p of the sorted list is
\* in the target directory with ordinal T+1+p and its own base name, the
\* pasted items follow the target sibling directly in the sorted listing, and
\* the other siblings keep their relative order.
C6_PasteAfterTarget ==
    PasteAfterCase =>
        LET T == ParseName(call.targetOrdinal).ordinal
            listing == NumberedFiles(fs, CallDir)
            t == IndexIn(listing, call.targetOrdinal)
        IN /\ PastedFrom(T + 1)
           /\ t > 0 /\ t + Len(call.names) <= Len(listing)
           /\ \A p \in 1..Len(call.names) : listing[t + p] = PastedName(T + 1, p)

PasteTopCase ==
    /\ PasteCase
    /\ call.targetOrdinal = <<>>

\* C7: after a paste of k existing items without targetOrdinal the items have
\* the ordinals 0..k-1 in the order of the sorted paste list, every other
\* ordinal sibling of the target directory has its ordinal raised by k, and
\* the target directory holds nothing else that is new.
C7_PasteAtTop ==
    PasteTopCase =>
        LET k == Len(call.names)
            moved == {Last(ItemAbs(p)) : p \in {r \in 1..k : Parent(ItemAbs(r)) = CallDir}}
            others == Readdir(pre, CallDir) \ moved
            raised(x) == IF isOrdinalName(x)
                         THEN FormatOrdinal(ParseName(x).ordinal + k) \o ParseName(x).base
                         ELSE x
        IN /\ PastedFrom(0)
           /\ Readdir(fs, CallDir) =
                 {PastedName(0, p) : p \in 1..k} \cup {raised(x) : x \in others}

(***************************************************************************)
(* C8  joinFiles.                                                          *)
(***************************************************************************)
\* the files the last request names
Named == {call.names[i] : i \in 1..Len(call.names)}

\* a successful join of two or more names of existing ordinal files
JoinCase ==
    /\ call.op = "joinFiles"
    /\ res.kind = "Success"
    /\ Len(call.names) >= 2
    /\ \A x \in Named : isOrdinalName(x) /\ IsFile(pre, Append(CallDir, x))

\* the named files, each once, in an ascending order of their ordinals
JoinOrders ==
    {l \in DistinctLists(Named, Cardinality(Named)) :
        /\ Len(l) = Cardinality(Named)
        /\ \A i, j \in 1..Len(l) : i < j => ParseName(l[i]).ordinal <= ParseName(l[j]).ordinal}

\* C8: after a successful join of a list of at least two names of existing
\* files, given in any order, the named file with the lowest ordinal exists
\* and holds the contents of the named files in ascending ordinal order,
\* joined by two newlines, and no other named file exists.
C8_JoinFiles ==
    JoinCase =>
        \E l \in JoinOrders :
            /\ IsFile(fs, Append(CallDir, l[1]))
            /\ fs[Append(CallDir, l[1])].content =
                  JoinWith([i \in 1..Len(l) |-> pre[Append(CallDir, l[i])].content], JoinSeparator)
            /\ \A x \in Named \ {l[1]} : ~Exists(fs, Append(CallDir, x))

(***************************************************************************)
(* C9  makeFolder.                                                         *)
(***************************************************************************)
\* a successful conversion of an ordinal-named file to a folder
MakeFolderCase ==
    /\ call.op = "makeFolder"
    /\ res.kind = "Success"
    /\ isOrdinalName(call.filename)
    /\ IsFile(pre, Append(CallDir, call.filename))

\* C9: after a successful makeFolder on an existing ordinal-named file the
\* file is gone, its parent holds a directory named by the file's ordinal
\* prefix followed by folderName, that directory holds the one child
\* 0001_file.md with remainingContent when remainingContent is not blank and
\* nothing otherwise, and every other entry of the tree is as before.
C9_MakeFolderResult ==
    MakeFolderCase =>
        LET file == Append(CallDir, call.filename)
            prefix == Upto(call.filename, IndexOf(call.filename, "_"))
            folder == Append(CallDir, prefix \o call.folderName)
            child == Append(folder, ContentFileName)
            blank == \A i \in 1..Len(call.content) : IsWhite(call.content[i])
        IN /\ ~Exists(fs, file)
           /\ IsDir(fs, folder)
           /\ ParseName(Last(folder)).ordinal = ParseName(call.filename).ordinal
           /\ Readdir(fs, folder) = IF blank THEN {} ELSE {ContentFileName}
           /\ ~blank => IsFile(fs, child) /\ fs[child].content = call.content
           /\ Readdir(fs, CallDir) = (Readdir(pre, CallDir) \ {call.filename}) \cup {Last(folder)}
           /\ \A q \in DOMAIN pre \ {file} : q \in DOMAIN fs /\ fs[q] = pre[q]
           /\ DOMAIN fs \ DOMAIN pre \subseteq {folder, child}

(***************************************************************************)
(* C10  deleteFileOrFolder on a list.                                      *)
(***************************************************************************)
\* a delete of two or more names in an existing folder
DeleteBatchCase ==
    /\ call.op = "deleteFileOrFolder"
    /\ Len(call.names) >= 2
    /\ IsDir(pre, CallDir)

\* the named entries of the tree that the call removed
Removed ==
    {q \in {PJoin(CallDir, call.names[i]) : i \in 1..Len(call.names)} :
        Exists(pre, q) /\ ~Exists(fs, q)}

\* C10: a delete of two or more names removes every named entry of the tree
\* that exists, directories with all they hold, whatever happens to the other
\* names; deletedCount is the number of entries removed and errors has a
\* message naming each item that was not removed.
C10_DeleteBatch ==
    DeleteBatchCase =>
        /\ res.kind = "Success"
        /\ \A i \in 1..Len(call.names) :
              LET q == PJoin(CallDir, call.names[i])
              IN /\ (Exists(pre, q) /\ IsWithin(q, Root)) =>
                       \A r \in Subtree(pre, q) : ~Exists(fs, r)
                 /\ (~Exists(pre, q) \/ Exists(fs, q)) =>
                       \E e \in 1..Len(res.errors) : res.errors[e].item = call.names[i]
        /\ res.count = Cardinality(Removed)
        /\ res.total = Len(call.names)

\* a batch with a folder that holds a file, and a name that is missing
C10_Witness ==
    /\ DeleteBatchCase
    /\ \E i, j \in 1..Len(call.names) :
          /\ IsDir(pre, PJoin(CallDir, call.names[i]))
          /\ Subtree(pre, PJoin(CallDir, call.names[i])) # {PJoin(CallDir, call.names[i])}
          /\ ~Exists(pre, PJoin(CallDir, call.names[j]))
          /\ i > j
    /\ res.count = 1

(***************************************************************************)
(* C11  No uncaught fault.                                                 *)
(***************************************************************************)
\* the call of the last request that was made to fail, if it was reached
FaultHit == call.fault \in 1..Len(log) /\ ~log[call.fault].ok

ValidationKinds == {"BadRequest", "NotFound", "Conflict", "NotADirectory", "NotAFile", "Boundary"}

\* the last request was refused by a check of one of the six handlers
Refused ==
    /\ call.op \in {"saveFile", "renameFolder", "moveUpOrDown", "pasteItems", "joinFiles",
                    "makeFolder"}
    /\ res.kind \in ValidationKinds

\* C12: when saveFile, renameFolder, moveUpOrDown, pasteItems, joinFiles or
\* makeFolder answers with a validation error, it has issued no rename,
\* write, unlink, rm or mkdir, and the tree is what it was before the call.
C12_FailFastValidation ==
    Refused => /\ \A i \in 1..Len(log) : log[i].op \notin Mutating
               /\ fs = pre

\* a join refused at its second name, after the first file was read
C12_Witness ==
    /\ call.op = "joinFiles"
    /\ res.kind = "NotFound"
    /\ \E i \in 1..Len(log) : log[i].op = "read" /\ log[i].ok

(***************************************************************************)
(* C13  moveUpOrDown at the boundary.                                      *)
(***************************************************************************)
\* a move of the first ordinal entry up, or of the last one down
BoundaryCase ==
    /\ call.op = "moveUpOrDown"
    /\ IsDir(pre, CallDir)
    /\ call.filename \in OrdinalEntries(pre, CallDir)
    /\ \/ /\ call.direction = "up"
          /\ \A y \in OrdinalEntries(pre, CallDir) \ {call.filename} : StrLess(call.filename, y)
       \/ /\ call.direction = "down"
          /\ \A y \in OrdinalEntries(pre, CallDir) \ {call.filename} : StrLess(y, call.filename)

\* C13: 'up' on the first entry of the sorted ordinal siblings and 'down' on
\* the last one are answered with Boundary and rename nothing; with a single
\* ordinal sibling both directions are refused.
C13_MoveBoundary ==
    BoundaryCase => /\ res.kind = "Boundary"
                    /\ \A i \in 1..Len(log) : log[i].op # "rename"
                    /\ fs = pre

\* the only ordinal entry of its directory, asked to move down
C13_Witness ==
    /\ BoundaryCase
    /\ call.direction = "down"
    /\ OrdinalEntries(pre, CallDir) = {call.filename}
    /\ res.kind = "Boundary"

(***************************************************************************)
(* C14  renameFolder outcomes.                                             *)
(***************************************************************************)
RenameOld == PJoin(CallDir, call.filename)

RenameNew == PJoin(CallDir, call.newFileName)

\* the outcomes the handler's checks give, in their order; rest stands for
\* what happens when no check refuses
RenameOutcome(rest) ==
    IF ~Exists(pre, CallDir) \/ ~Exists(pre, RenameOld)
    THEN res.kind = "NotFound" /\ fs = pre
    ELSE IF ~IsDir(pre, RenameOld)
    THEN res.kind = "NotADirectory" /\ fs = pre
    ELSE IF call.filename = call.newFileName
    THEN res.kind = "Success" /\ fs = pre /\ \A i \in 1..Len(log) : log[i].op \notin Mutating
    ELSE IF Exists(pre, RenameNew)
    THEN res.kind = "Conflict" /\ fs = pre
    ELSE rest

\* the old folder, and it alone, now carries the new name
RenamedOnly ==
    /\ res.kind = "Success"
    /\ SameUpTo(pre, fs, {<<RenameOld, RenameNew>>})
    /\ ~Exists(fs, RenameOld) /\ IsDir(fs, RenameNew)

SaveNewName ==
    IF call.newFileName # <<>> /\ ~HasExt(call.newFileName)
    THEN call.newFileName \o MdExt ELSE call.newFileName

\* a saveFile that asks for a new name which an entry of the folder bears
SaveConflictCase ==
    /\ call.op = "saveFile"
    /\ IsDir(pre, CallDir)
    /\ call.newFileName # <<>>
    /\ SaveNewName # call.filename
    /\ Exists(pre, PJoin(CallDir, SaveNewName))

\* C15: a saveFile whose newFileName differs from filename and names, with
\* '.md' appended where it has no extension, an existing entry of the folder
\* answers Conflict, renames nothing and leaves that entry's content as it
\* was, whether or not the file named filename exists.
C15_SaveRenameConflict ==
    SaveConflictCase => /\ res.kind = "Conflict"
                        /\ \A i \in 1..Len(log) : log[i].op # "rename"
                        /\ fs[PJoin(CallDir, SaveNewName)] = pre[PJoin(CallDir, SaveNewName)]

(***************************************************************************)
(* C16  pasteItems: items fail one by one.                                 *)
(***************************************************************************)
\* the last request is a paste that ran to its summary
PasteAnswered == call.op = "pasteItems" /\ res.status = 200

\* where item p of the paste list is to end
PasteFinal(p) ==
    Append(CallDir, OrdinalName(InsertOrdinal(call.targetOrdinal) + (p - 1),
                                Basename(call.names[p])))

\* item p is in the target directory under its final name
PastePresent(p) ==
    /\ Exists(pre, ItemAbs(p))
    /\ Exists(fs, PasteFinal(p))
    /\ fs[PasteFinal(p)] = pre[ItemAbs(p)]

\* C16: a paste item whose source is missing or whose move fails is listed
\* in errors and the other items are still moved; success is reported
\* exactly when pastedCount >= 1, and pastedCount is the number of items
\* that are in the target directory under their final name.
C16_PasteIsolation ==
    PasteAnswered =>
        /\ res.success <=> res.count >= 1
        /\ res.total = Len(call.names)
        /\ res.count = Cardinality({p \in 1..Len(call.names) : PastePresent(p)})
        /\ Len(res.errors) = res.total - res.count
        /\ \A p \in 1..Len(call.names) :
              ~Exists(pre, ItemAbs(p)) => \E k \in 1..Len(res.errors) :
                                             Basename(res.errors[k].item) = Basename(call.names[p])

\* the move of one item failed and the other item was moved all the same
C16_Witness ==
    /\ PasteAnswered
    /\ FaultHit /\ log[call.fault].op = "rename"
    /\ \E k \in 1..Len(res.errors) : res.errors[k].why = "Failed"
    /\ res.count = 1 /\ res.success
    /\ \E p \in 1..Len(call.names) : PastePresent(p)

(***************************************************************************)
(* C17  pasteItems: paths through renumbered directories.                  *)
(***************************************************************************)
\* the path of item p passes through an entry of the target directory
BelowSibling(p) ==
    IsWithin(ItemAbs(p), CallDir) /\ Len(ItemAbs(p)) >= Len(CallDir) + 1

\* the entry of the target directory that item p lies in
SiblingOf(p) == ItemAbs(p)[Len(CallDir) + 1]

\* the path of item p passes through a directory of the target folder that
\* the shift renumbers: one at or after the insert position, not set aside
UnderRenumbered(p) ==
    /\ BelowSibling(p)
    /\ IsDir(pre, Append(CallDir, SiblingOf(p)))
    /\ ParseName(SiblingOf(p)).ok
    /\ ParseName(SiblingOf(p)).ordinal >= InsertOrdinal(call.targetOrdinal)
    /\ \A q \in 1..Len(call.names) :
          ItemAbs(q) = Append(CallDir, SiblingOf(p)) => ~IsFromFolder(call.names[q], call.treeFolder)

\* where item p is after the shift has renumbered the directory it lies in
ShiftedPath(p) ==
    Append(CallDir, FormatOrdinal(ParseName(SiblingOf(p)).ordinal + Len(call.names))
                    \o ParseName(SiblingOf(p)).base)
    \o From(ItemAbs(p), Len(CallDir) + 2)

\* C17: an existing paste item inside a directory of the target folder that
\* the shift renumbers is moved from its place under the directory's new
\* name, not reported missing; an item under no renumbered directory
\* is moved from the path the caller gave, or from the temporary name it was
\* set aside under.
C17_PasteRemap ==
    PasteAnswered =>
        \A p \in 1..Len(call.names) :
            Exists(pre, ItemAbs(p)) =>
                IF UnderRenumbered(p)
                THEN /\ \E i \in Performed : /\ log[i].op = "rename"
                                              /\ log[i].src = ShiftedPath(p)
                                              /\ log[i].dst = PasteFinal(p)
                     /\ PastePresent(p)
                ELSE \A i \in Performed :
                        log[i].op = "rename" /\ log[i].dst = PasteFinal(p) =>
                            \/ log[i].src = ItemAbs(p)
                            \/ StartsWith(Last(log[i].src), TempPastePrefix)

\* an item moved out of a directory that the same paste renumbered
C17_Witness ==
    /\ PasteAnswered
    /\ \E p \in 1..Len(call.names) :
          /\ Exists(pre, ItemAbs(p)) /\ UnderRenumbered(p)
          /\ Len(ItemAbs(p)) >= Len(CallDir) + 2
          /\ ShiftedPath(p) # ItemAbs(p)
          /\ PastePresent(p)

(***************************************************************************)
(* C18  A process that stops during the swap.                              *)
(***************************************************************************)
\* a name of the kind the swap parks an entry under
TempNamed(x) == StartsWith(x, <<"t", "e", "m", "p", "_">>)

\* the last request was a move whose process stopped after a rename
Crashed == call.op = "moveUpOrDown" /\ call.halt \in CrashPoints /\ sent = 0

\* the paths the last request names
NamedPaths ==
    (IF call.filename = <<>> THEN {} ELSE {PJoin(CallDir, call.filename)})
    \cup {PJoin(CallDir, call.names[i]) : i \in 1..Len(call.names)}
    \cup {PJoin(Root, call.names[i]) : i \in 1..Len(call.names)}

\* the stopped swap leaves one parked entry, with the moved entry's content,
\* as many entries as before and every entry of the tree under some name
CrashLeavesTemp ==
    Crashed =>
        LET temps == {x \in Readdir(fs, CallDir) : TempNamed(x)}
        IN /\ Cardinality(temps) = 1
           /\ \A t \in temps : /\ fs[Append(CallDir, t)] = pre[Append(CallDir, call.filename)]
                                /\ ~ParseName(t).ok
           /\ Cardinality(Readdir(fs, CallDir)) = Cardinality(Readdir(pre, CallDir))
           /\ SameUpTo(pre, fs, {<<log[i].src, log[i].dst>> : i \in Performed})

\* a request that does not name a parked entry leaves it where it is
TempStays ==
    \A P \in DOMAIN pre :
        (P # <<>> /\ TempNamed(Last(P)) /\ \A q \in NamedPaths : ~IsWithin(P, q))
            => P \in DOMAIN fs /\ fs[P] = pre[P]

\* C18: when the process stops after the first or the second rename of the
\* swap, the directory holds exactly one temp-named entry with the moved
\* entry's content, as many entries as before, and no content is lost; no
\* later request that does not name the temp entry renames it, as its name
\* is no ordinal name.
C18_CrashDuringSwap == CrashLeavesTemp /\ TempStays

\* after a stopped swap, a paste into the same directory renumbered the
\* siblings and left the parked entry alone
C18_Witness ==
    /\ nops = 2
    /\ call.op = "pasteItems" /\ res.success
    /\ \E i \in Performed : log[i].op = "rename" /\ Parent(log[i].src) = CallDir
    /\ \E x \in Readdir(pre, CallDir) : TempNamed(x) /\ x \in Readdir(fs, CallDir)

(***************************************************************************)
(* C19  Delete does not renumber.                                          *)
(***************************************************************************)
\* the paths the last delete names
DeleteTargets == {PJoin(CallDir, call.names[i]) : i \in 1..Len(call.names)}

\* C19: after deleteFileOrFolder every entry that is not named in the
\* request, nor inside a named directory, has the name, ordinal and content
\* it had; nothing is renamed or added, so gaps in the ordinals stay open.
C19_DeleteKeepsSiblings ==
    call.op = "deleteFileOrFolder" =>
        /\ \A P \in DOMAIN pre :
              (\A t \in DeleteTargets : ~IsWithin(P, t)) => P \in DOMAIN fs /\ fs[P] = pre[P]
        /\ DOMAIN fs \subseteq DOMAIN pre
        /\ \A i \in 1..Len(log) : log[i].op \notin {"rename", "write", "mkdir"}

\* an entry deleted from between two ordinal siblings, which keep their ordinals
C19_Witness ==
    /\ call.op = "deleteFileOrFolder" /\ res.kind = "Success"
    /\ \E x, y \in OrdinalEntries(fs, CallDir) :
       \E z \in OrdinalEntries(pre, CallDir) \ OrdinalEntries(fs, CallDir) :
          /\ ParseName(x).ordinal < ParseName(z).ordinal
          /\ ParseName(z).ordinal < ParseName(y).ordinal

(***************************************************************************)
(* C20  joinFiles with a file that cannot be read.                         *)
(***************************************************************************)
\* a join of distinct existing ordinal files, the read of one of them failing
UnreadableCase ==
    /\ call.op = "joinFiles"
    /\ FaultHit /\ log[call.fault].op = "read"
    /\ Len(call.names) >= 2 /\ Cardinality(Named) = Len(call.names)
    /\ \A x \in Named : isOrdinalName(x) /\ IsFile(pre, Append(CallDir, x))

\* what a named file adds to the joined text
Contribution(x) ==
    IF Append(CallDir, x) = log[call.fault].src THEN <<>> ELSE pre[Append(CallDir, x)].content

\* C20: when the read of one named file fails, the join still succeeds: the
\* file counts as empty at its place in the ordinal order, the joined text
\* is written to the file with the lowest ordinal and the other named files
\* are deleted.
C20_JoinUnreadable ==
    UnreadableCase =>
        /\ res.kind = "Success"
        /\ \E l \in JoinOrders :
              /\ IsFile(fs, Append(CallDir, l[1]))
              /\ fs[Append(CallDir, l[1])].content =
                    JoinWith([i \in 1..Len(l) |-> Contribution(l[i])], JoinSeparator)
              /\ \A x \in Named \ {l[1]} : ~Exists(fs, Append(CallDir, x))
              /\ res.names[1] = l[1]

\* the file that could not be read had content, which the joined text lacks
C20_Witness ==
    /\ UnreadableCase
    /\ res.kind = "Success"
    /\ pre[log[call.fault].src].content # <<>>
    /\ \E x \in Named : IsFile(fs, Append(CallDir, x))

(***************************************************************************)
(* C21  joinFiles as one step.                                             *)
(***************************************************************************)
\* a join of distinct existing ordinal files, one read, write or unlink failing
JoinFaultCase ==
    /\ call.op = "joinFiles"
    /\ FaultHit /\ log[call.fault].op \in {"read", "write", "unlink"}
    /\ Len(call.names) >= 2 /\ Cardinality(Named) = Len(call.names)
    /\ \A x \in Named : isOrdinalName(x) /\ IsFile(pre, Append(CallDir, x))

\* what a named file adds to the joined text: nothing when its read failed
JoinPiece(x) ==
    IF log[call.fault].op = "read" THEN Contribution(x) ELSE pre[Append(CallDir, x)].content

\* the joined text is in the first file and every other named file is gone
JoinedAll ==
    \E l \in JoinOrders :
        /\ IsFile(fs, Append(CallDir, l[1]))
        /\ fs[Append(CallDir, l[1])].content =
              JoinWith([i \in 1..Len(l) |-> JoinPiece(l[i])], JoinSeparator)
        /\ \A x \in Named \ {l[1]} : ~Exists(fs, Append(CallDir, x))

\* C21: with a failure at a read, at the write of the joined file or at an
\* unlink, a join either has joined all named files (joined text in the
\* first, every other one removed) or has changed and removed nothing, and
\* it does not answer success while a named file other than the first exists.
C21_JoinAtomic ==
    JoinFaultCase =>
        /\ JoinedAll \/ fs = pre
        /\ res.kind = "Success" =>
              \E l \in JoinOrders : \A x \in Named \ {l[1]} : ~Exists(fs, Append(CallDir, x))

(***************************************************************************)
(* C22  makeFolder as one step.                                            *)
(***************************************************************************)
\* the file the last makeFolder names, and the folder that replaces it
MadeFrom == PJoin(CallDir, call.filename)

MadeFolder == PJoin(CallDir, NewFolderName(call.filename, call.folderName))

\* a conversion of an existing file, its unlink, mkdir or write failing
MakeFolderFaultCase ==
    /\ call.op = "makeFolder"
    /\ FaultHit /\ log[call.fault].op \in {"unlink", "mkdir", "write"}
    /\ IsFile(pre, MadeFrom)

\* the conversion is complete
MadeFully ==
    /\ res.kind = "Success"
    /\ ~Exists(fs, MadeFrom)
    /\ IsDir(fs, MadeFolder)
    /\ Trim(call.content) # <<>> => IsFile(fs, Append(MadeFolder, ContentFileName))

\* the conversion failed and left the file as it was, with no new folder
MadeNothing ==
    /\ res.kind # "Success"
    /\ IsFile(fs, MadeFrom) /\ fs[MadeFrom] = pre[MadeFrom]
    /\ ~Exists(fs, MadeFolder)

\* C22: with a failure at the unlink of the source, at the mkdir of the
\* folder or at the write of 0001_file.md, makeFolder either succeeds fully
\* (source gone, folder present, content child present when requested) or
\* fails with the source file present with its content and no new folder.
C22_MakeFolderAtomic == MakeFolderFaultCase => MadeFully \/ MadeNothing

(***************************************************************************)
(* C23  What a failure in the middle of a sequence reports.                *)
(***************************************************************************)
\* the multi-step operations: the swap, the split save, the conversion
MultiStep ==
    \/ call.op = "moveUpOrDown"
    \/ call.op = "saveFile" /\ call.split
    \/ call.op = "makeFolder"

\* the last request handled again on the same tree, its k-th call failing
Rerun(k) ==
    LET b == [call EXCEPT !.fault = k]
    IN IF call.op = "moveUpOrDown" THEN moveUpOrDown(pre, Root, b)
       ELSE IF call.op = "saveFile" THEN saveFile(pre, Root, b)
       ELSE makeFolder(pre, Root, b)

\* a run that failed at a step after its first change of the tree
FailedMidway(out) ==
    /\ out.res.kind = "ServerError"
    /\ \E i \in 1..Len(out.log) : ~out.log[i].ok /\ out.log[i].op \in Mutating
    /\ \E i \in 1..Len(out.log) : out.log[i].ok /\ out.log[i].op \in Mutating

ShiftAt ==
    IF \E i \in 1..Len(log) : log[i].op = "readdir"
    THEN CHOOSE i \in 1..Len(log) : log[i].op = "readdir" ELSE Len(log) + 1

\* the names the last request built from a number: the destinations of the
\* shift renames, the files of the parts after the first, the final names
\* of pasted items
Generated ==
    IF call.op = "saveFile" /\ call.split
    THEN {Last(log[i].dst) : i \in {j \in Performed :
              j > ShiftAt /\ log[j].dst # PJoin(CallDir, FinalName)}}
    ELSE IF call.op = "pasteItems"
    THEN {Last(log[i].dst) : i \in {j \in Performed : ~TempNamed(Last(log[j].dst))}}
    ELSE {}

\* the numbers the last request builds names from
GeneratedNumbers ==
    LET k == Len(Partitions)
        o == ParseName(FinalName).ordinal
        ins == InsertOrdinal(call.targetOrdinal)
        n == Len(call.names)
    IN IF call.op = "saveFile"
       THEN {o + i : i \in 1..(k - 1)}
            \cup {ParseName(x).ordinal + (k - 1) :
                     x \in {y \in OrdinalEntries(pre, CallDir) : ParseName(y).ordinal >= o + 1}}
       ELSE {ins + (p - 1) : p \in 1..n}
            \cup {ParseName(x).ordinal + n :
                     x \in {y \in OrdinalEntries(pre, CallDir) : ParseName(y).ordinal >= ins}}

\* a name that starts with exactly four digits and "_"
FourDigitName(g) == IndexOf(g, "_") = OrdinalWidth + 1 /\ AllDigits(Upto(g, OrdinalWidth))

\* C24: every name that split, paste or shift builds from a number starts
\* with exactly four decimal digits and "_", and parses back to the number
\* it was built from; parse(format(n)).ordinal = n for all n in 0..9999; and
\* generated names are in lexicographic order as their ordinals are in
\* numeric order.
C24_OrdinalWidth ==
    /\ \A g \in Generated :
          /\ FourDigitName(g)
          /\ ParseName(g).ok /\ ParseName(g).ordinal \in GeneratedNumbers
    /\ nops = 0 => \A n \in 0..9999 :
          /\ Len(FormatOrdinal(n)) = OrdinalWidth + 1
          /\ ParseName(FormatOrdinal(n) \o <<"x">>).ordinal = n
    /\ \A g, h \in Generated :
          ParseName(g).ordinal < ParseName(h).ordinal => StrLess(g, h)

(***************************************************************************)
(* C25  Names outside the ordered sequence and moveUpOrDown.               *)
(***************************************************************************)
\* a move request with its fields in order
MoveAsked ==
    /\ call.op = "moveUpOrDown"
    /\ call.filename # <<>> /\ call.direction \in {"up", "down"}

\* C25: moveUpOrDown ignores an entry whose name does not start with four
\* digits and "_": no swap renames such an entry, be it as the moved entry
\* or as its neighbour, and a request to move one is answered NotFound
\* without any rename.
C25_NonOrdinalIgnored ==
    MoveAsked =>
        /\ \A i \in Performed :
              FourDigitName(Last(log[i].src)) \/ TempNamed(Last(log[i].src))
        /\ ~FourDigitName(call.filename) => res.kind = "NotFound" /\ Performed = {}

(***************************************************************************)
(* C26  pasteItems with a field missing.                                   *)
(***************************************************************************)
\* a paste whose item list is missing, no list or empty, or whose target
\* folder is missing
PasteInvalid ==
    /\ call.op = "pasteItems"
    /\ call.itemsKind # "list" \/ call.names = <<>> \/ call.treeFolder = <<>>

\* C26: a paste whose items list is missing, not a list or empty, or whose
\* targetFolder is missing, is answered BadRequest, not ServerError, and
\* changes nothing in the filesystem.
C26_PasteValidation ==
    PasteInvalid => res.kind = "BadRequest" /\ Performed = {} /\ fs = pre

(***************************************************************************)
(* C27  A single-name delete of a missing entry.                           *)
(***************************************************************************)
\* a delete of exactly one name that is not in its existing parent folder
DeleteMissingCase ==
    /\ call.op = "deleteFileOrFolder"
    /\ Len(call.names) = 1 /\ call.treeFolder # <<>>
    /\ IsDir(pre, CallDir)
    /\ ~Exists(pre, PJoin(CallDir, call.names[1]))

\* C27: deleteFileOrFolder with exactly one name that does not exist in an
\* existing parent folder is answered NotFound, not ServerError, and
\* deletes nothing.
C27_DeleteMissing ==
    DeleteMissingCase => res.kind = "NotFound" /\ res.status = 404 /\ fs = pre

(***************************************************************************)
(* C28  The three renames of the swap.                                     *)
(***************************************************************************)
\* the renames the last request issued, in order
Renames == SelectSeq(log, LAMBDA e : e.op = "rename")

\* the ordinal prefix of a name, "_" included, and what follows it
PrefixOf(x) == Upto(x, IndexOf(x, "_"))

BaseOf(x) == From(x, IndexOf(x, "_") + 1)

\* C28: a move that goes ahead in a directory with pairwise distinct
\* ordinals issues exactly three renames and no other change: A to a
\* temporary name, B to A's ordinal with B's base, the temporary name to B's
\* ordinal with A's base; each rename takes effect and none finds an entry
\* under its destination name, also when A and B have the same base.
C28_SwapSteps ==
    MoveCase =>
        LET before == NumberedFiles(pre, CallDir)
            i == IndexIn(before, call.filename)
            A == call.filename
            B == before[IF call.direction = "up" THEN i - 1 ELSE i + 1]
        IN /\ Len(Renames) = 3
           /\ \A j \in 1..Len(log) : log[j].op \in Mutating => log[j].op = "rename"
           /\ Renames[1].src = Append(CallDir, A)
           /\ Parent(Renames[1].dst) = CallDir /\ TempNamed(Last(Renames[1].dst))
           /\ Renames[2].src = Append(CallDir, B)
           /\ Renames[2].dst = Append(CallDir, PrefixOf(A) \o BaseOf(B))
           /\ Renames[3].src = Renames[1].dst
           /\ Renames[3].dst = Append(CallDir, PrefixOf(B) \o BaseOf(A))
           /\ \A j \in 1..3 : Renames[j].ok /\ ~Renames[j].over

\* a swap of two entries that have the same base name
C28_Witness ==
    /\ MoveCase
    /\ Len(Renames) = 3
    /\ BaseOf(Last(Renames[1].src)) = BaseOf(Last(Renames[2].src))
    /\ fs # pre

(***************************************************************************)
(* C29  The shift has no transient collision.                              *)
(***************************************************************************)
\* C29: a shift of a directory with pairwise distinct ordinals renames the
\* affected siblings in descending order of their ordinals, each rename
\* takes effect, and none finds an entry under its destination name: after
\* every single rename the directory holds each entry under a name of its
\* own, for n = 1 and above and for consecutive ordinals too.
C29_ShiftNoCollision ==
    ShiftCase =>
        /\ \A j \in 1..Len(Renames) : Renames[j].ok /\ ~Renames[j].over
        /\ \A j, k \in 1..Len(Renames) :
              j < k => ParseName(Last(Renames[j].src)).ordinal
                          > ParseName(Last(Renames[k].src)).ordinal
        /\ Cardinality(Readdir(fs, CallDir)) = Cardinality(Readdir(pre, CallDir))

\* a shift of consecutive ordinals: a later rename takes the name that an
\* earlier rename has freed
C29_Witness ==
    /\ ShiftCase
    /\ Len(Renames) >= 2
    /\ \E j, k \in 1..Len(Renames) : j < k /\ Renames[k].dst = Renames[j].src

(***************************************************************************)
(* C30  The order of the steps of a same-folder paste.                     *)
(***************************************************************************)
\* a paste that ran to its summary
PasteRan == call.op = "pasteItems" /\ res.status = 200

\* the renames to a temporary name, and those from one
TempOut == {j \in 1..Len(log) : log[j].op = "rename" /\ TempNamed(Last(log[j].dst))}

TempBack == {j \in 1..Len(log) : log[j].op = "rename" /\ TempNamed(Last(log[j].src))}

\* the renames of the shift: those that follow its reading of the directory
\* with no other call in between
ShiftBlock ==
    {j \in (ShiftAt + 1)..Len(log) :
        \A i \in (ShiftAt + 1)..j : log[i].op = "rename" /\ ~TempNamed(Last(log[i].src))}

\* C30: in a paste, every item that is a sibling in the target folder is
\* renamed to a temporary name before the shift, and every rename from a
\* temporary name to a final name comes after the shift; the shift runs
\* exactly once, with n the number of paste items, and renames no
\* temp-named entry.
C30_PasteProtocolOrder ==
    PasteRan =>
        /\ Cardinality({j \in 1..Len(log) : log[j].op = "readdir"}) = 1
        /\ \A p \in 1..Len(call.names) :
              (IsFromFolder(call.names[p], call.treeFolder) /\ Exists(pre, ItemAbs(p)))
                  => \E j \in TempOut : log[j].src = ItemAbs(p)
        /\ \A j \in TempOut :
              /\ j < ShiftAt /\ log[j].ok
              /\ Parent(log[j].src) = CallDir /\ Parent(log[j].dst) = CallDir
        /\ \A j \in TempBack :
              /\ j > ShiftAt /\ \A i \in ShiftBlock : i < j
              /\ log[j].ok
              /\ \E i \in TempOut : log[i].dst = log[j].src
              /\ Parent(log[j].dst) = CallDir /\ FourDigitName(Last(log[j].dst))
        /\ \A j \in ShiftBlock :
              /\ Parent(log[j].src) = CallDir /\ Parent(log[j].dst) = CallDir
              /\ ParseName(Last(log[j].dst)).ordinal
                    = ParseName(Last(log[j].src)).ordinal + Len(call.names)
              /\ ParseName(Last(log[j].dst)).base = ParseName(Last(log[j].src)).base

\* two siblings pasted in their own folder: both parked, a sibling shifted
\* by two, both brought back
C30_Witness ==
    /\ PasteRan
    /\ Len(call.names) = 2
    /\ Cardinality(TempOut) = 2 /\ Cardinality(TempBack) = 2
    /\ ShiftBlock # {}
    /\ res.count = 2

(***************************************************************************)
(* C31  A split writes after the shift and overwrites nothing.             *)
(***************************************************************************)
\* a split save of two or more partitions that got as far as its shift, in a
\* directory with distinct ordinals
SplitRan ==
    /\ call.op = "saveFile"
    /\ call.split
    /\ Len(Partitions) >= 2
    /\ DistinctOrdinals(pre, CallDir)
    /\ \E j \in 1..Len(log) : log[j].op = "readdir"

\* the place of the shift's reading of the directory in the log
ShiftStart == CHOOSE j \in 1..Len(log) : log[j].op = "readdir"

\* the writes of the split, in order
SplitWrites == {j \in 1..Len(log) : log[j].op = "write"}

\* the siblings the shift of the split has to rename: the ordinal entries
\* above the target, once the target has its final name
SplitShifted ==
    {x \in Readdir(pre, CallDir) \ {call.filename, FinalName} :
        isOrdinalName(x) /\ ParseName(x).ordinal >= ParseName(FinalName).ordinal + 1}

\* C31: in a split save on a directory with pairwise distinct ordinals, every
\* sibling with an ordinal of originalOrdinal + 1 or more has been renamed by
\* the shift, k - 1 higher, before the first partition is written, no rename
\* follows a write, no partition write other than the first finds an entry
\* under its name, and every sibling is in the tree afterwards with the
\* content it had.
C31_SplitWritesAfterShift ==
    SplitRan =>
        /\ \A w \in SplitWrites :
              /\ w > ShiftStart
              /\ \A j \in 1..Len(log) : log[j].op = "rename" /\ j > ShiftStart => j < w
              /\ \A x \in SplitShifted :
                    \E j \in (ShiftStart + 1)..(w - 1) :
                        /\ log[j].op = "rename" /\ log[j].ok
                        /\ log[j].src = Append(CallDir, x)
                        /\ log[j].dst = Append(CallDir,
                              AfterSplit(x, ParseName(FinalName).ordinal, Len(Partitions)))
              /\ log[w].src # Append(CallDir, FinalName) => ~log[w].over
        /\ SplitWrites # {} =>
              \A x \in Readdir(pre, CallDir) \ {call.filename, FinalName} :
                 \A q \in Subtree(pre, Append(CallDir, x)) :
                    LET q2 == Append(CallDir, AfterSplit(x, ParseName(FinalName).ordinal,
                                                        Len(Partitions)))
                              \o From(q, Len(CallDir) + 2)
                    IN q2 \in DOMAIN fs /\ fs[q2] = pre[q]

\* a split whose second partition is written under a name that a sibling had
\* when the request arrived, the sibling having been shifted out of the way
C31_Witness ==
    /\ SplitRan
    /\ res.kind = "Success"
    /\ \E w \in SplitWrites :
          /\ log[w].src # Append(CallDir, FinalName)
          /\ Exists(pre, log[w].src)
          /\ Last(log[w].src) \in SplitShifted

(***************************************************************************)
(* C32  The order of the steps of makeFolder.                              *)
(***************************************************************************)
\* the places in the log of the calls of one kind
CallsOf(op) == {j \in 1..Len(log) : log[j].op = op}

\* C32: in makeFolder the new folder's name is looked up before the source
\* file is deleted, the source file is deleted before the folder is created,
\* the content child is written only into the folder created before it, and
\* a request refused with Conflict has deleted nothing: the source file is
\* there with the content it had.
C32_MakeFolderOrder ==
    call.op = "makeFolder" =>
        /\ \A u \in CallsOf("unlink") :
              /\ log[u].src = MadeFrom
              /\ \E c \in 1..(u - 1) : log[c].op = "exists" /\ log[c].src = MadeFolder
        /\ \A k \in CallsOf("mkdir") :
              /\ log[k].src = MadeFolder
              /\ \E u \in 1..(k - 1) : log[u].op = "unlink" /\ log[u].ok
        /\ \A w \in CallsOf("write") :
              /\ log[w].src = Append(MadeFolder, ContentFileName)
              /\ \E k \in 1..(w - 1) : log[k].op = "mkdir" /\ log[k].ok
        /\ res.kind = "Conflict" =>
              /\ Performed = {}
              /\ IsFile(fs, MadeFrom)
              /\ fs[MadeFrom] = pre[MadeFrom]

\* a conversion that ran its three steps: the file deleted, the folder
\* created, the content written into it
C32_Witness ==
    /\ call.op = "makeFolder"
    /\ res.kind = "Success"
    /\ \E u \in CallsOf("unlink"), k \in CallsOf("mkdir"), w \in CallsOf("write") :
          u < k /\ k < w /\ log[u].ok /\ log[k].ok /\ log[w].ok

(***************************************************************************)
(* C33  Temporary names after a call that returned.                        *)
(***************************************************************************)
\* a move or a paste that answered its caller, none of its filesystem calls
\* failing except possibly one rename
ReturnedCase ==
    /\ call.op \in {"moveUpOrDown", "pasteItems"}
    /\ sent = 1
    /\ FaultHit => log[call.fault].op = "rename"

\* C33: when moveUpOrDown or pasteItems has returned a result, success or
\* error, a failure possibly having hit one of its renames, the directory it
\* worked on holds no entry with a temporary name.
C33_NoTempSurvives ==
    ReturnedCase => \A x \in Readdir(fs, CallDir) : ~TempNamed(x)

(***************************************************************************)
(* C34  A paste conserves the entries of the tree.                         *)
(***************************************************************************)
\* the folders a paste works on: the target and the folders of its items
PasteFolders == {CallDir} \cup {Parent(ItemAbs(p)) : p \in 1..Len(call.names)}

\* a paste into a tree whose directories have pairwise distinct ordinals
PasteConserveCase ==
    /\ call.op = "pasteItems"
    /\ call.itemsKind = "list"
    /\ UniqueTree(pre)
    /\ \A d \in PasteFolders : IsDir(pre, d) => DistinctOrdinals(pre, d)

\* where the entry at path p of the tree before the request lies after the
\* first j calls of the request
RECURSIVE Trail(_, _)
Trail(p, j) ==
    IF j = 0 THEN p
    ELSE LET q == Trail(p, j - 1)
         IN IF log[j].op = "rename" /\ log[j].ok /\ IsWithin(q, log[j].src)
            THEN log[j].dst \o From(q, Len(log[j].src) + 1)
            ELSE q

\* the entries directly in the folders S of tree f
EntriesIn(f, S) == {p \in DOMAIN f : p # <<>> /\ Parent(p) \in S}

\* C34: during and after a pasteItems call on directories with pairwise
\* distinct ordinals the only changes are renames, no rename that takes effect
\* finds an entry under its destination name, after every call of the request
\* the entries that existed before lie at pairwise different paths, at the end
\* each of them is in the tree with the content it had, the entries of the
\* source and target folders are in the source and target folders, and the
\* number of entries of these folders is as before.
C34_PasteConserves ==
    PasteConserveCase =>
        /\ \A j \in 1..Len(log) :
              log[j].ok /\ log[j].op \in Mutating => log[j].op = "rename" /\ ~log[j].over
        /\ \A j \in 0..Len(log) :
              \A p, q \in DOMAIN pre : p # q => Trail(p, j) # Trail(q, j)
        /\ \A p \in DOMAIN pre :
              /\ Trail(p, Len(log)) \in DOMAIN fs
              /\ fs[Trail(p, Len(log))] = pre[p]
        /\ Cardinality(DOMAIN fs) = Cardinality(DOMAIN pre)
        /\ LET after == {Trail(d, Len(log)) : d \in PasteFolders}
           IN /\ \A p \in EntriesIn(pre, PasteFolders) :
                    Parent(Trail(p, Len(log))) \in after
              /\ Cardinality(EntriesIn(fs, after)) = Cardinality(EntriesIn(pre, PasteFolders))

\* a paste of a sibling of the target folder and of an entry of another
\* folder, with a rename to a temporary name, a rename of the shift that
\* renumbers the other folder, and a move across folders, all taking effect
C34_Witness ==
    /\ PasteConserveCase
    /\ res.count = 2
    /\ \E j \in TempOut : log[j].ok
    /\ \E j \in 1..Len(log) :
          /\ log[j].op = "rename" /\ log[j].ok
          /\ log[j].src \in PasteFolders /\ Parent(log[j].dst) = CallDir
    /\ \E j \in 1..Len(log) :
          log[j].op = "rename" /\ log[j].ok /\ Parent(log[j].src) # Parent(log[j].dst)

(***************************************************************************)
(* C35  A move and the opposite move.                                      *)
(***************************************************************************)
\* the opposite move on the name the item has after the last request
MoveBack ==
    moveUpOrDown(fs, Root,
                 [call EXCEPT !.filename = res.names[2],
                              !.direction = IF call.direction = "up" THEN "down" ELSE "up"])

\* how often each ordinal prefix occurs among the entries of d
PrefixCount(f, d) ==
    [p \in {PrefixOf(x) : x \in OrdinalEntries(f, d)} |->
        Cardinality({x \in OrdinalEntries(f, d) : PrefixOf(x) = p})]

BaseNames(f, d) == {BaseOf(x) : x \in OrdinalEntries(f, d)}

\* C35: after a successful move in a directory with pairwise distinct
\* ordinals, the opposite move on the item's new name succeeds and leaves
\* every entry of the tree under the name and with the content it had before
\* the first move; the move itself leaves the ordinal prefixes of the
\* directory, counted with multiplicity, and its set of base names unchanged.
C35_MoveRoundTrip ==
    MoveCase =>
        /\ MoveBack.res.kind = "Success"
        /\ MoveBack.fs = pre
        /\ PrefixCount(fs, CallDir) = PrefixCount(pre, CallDir)
        /\ BaseNames(fs, CallDir) = BaseNames(pre, CallDir)
        /\ PrefixCount(MoveBack.fs, CallDir) = PrefixCount(fs, CallDir)
        /\ BaseNames(MoveBack.fs, CallDir) = BaseNames(fs, CallDir)

\* a move up of the middle one of three ordinal entries, which changed the
\* tree and whose opposite move made three renames
C35_Witness ==
    /\ MoveCase
    /\ call.direction = "up"
    /\ Len(NumberedFiles(pre, CallDir)) >= 3
    /\ IndexIn(NumberedFiles(pre, CallDir), call.filename) = 2
    /\ fs # pre
    /\ Len(SelectSeq(MoveBack.log, LAMBDA e : e.op = "rename" /\ e.ok)) = 3

(***************************************************************************)
(* C36  The accounting of a paste.                                         *)
(***************************************************************************)
\* the renames of the move loop: those after the shift that are not its own
MoveRenames ==
    {j \in (ShiftAt + 1)..Len(log) : log[j].op = "rename" /\ j \notin ShiftBlock}

\* C36: a paste that reached its move loop reports totalItems as the length
\* of the paste list and pastedCount + the number of error messages =
\* totalItems; pastedCount is the number of renames of the move loop that
\* took effect, and every rename of the loop that failed is one error.
C36_PasteAccounting ==
    PasteAnswered =>
        /\ res.total = Len(call.names)
        /\ res.count + Len(res.errors) = res.total
        /\ res.count = Cardinality({j \in MoveRenames : log[j].ok})
        /\ Cardinality({k \in 1..Len(res.errors) : res.errors[k].why = "Failed"})
              = Cardinality({j \in MoveRenames : ~log[j].ok})

\* a paste of two items of which one was moved and the other's rename failed
C36_Witness ==
    /\ PasteAnswered
    /\ res.total = 2 /\ res.count = 1 /\ Len(res.errors) = 1
    /\ \E j \in MoveRenames : ~log[j].ok
    /\ \E j \in MoveRenames : log[j].ok

(***************************************************************************)
(* C37  makeFolder onto the file's own name.                               *)
(***************************************************************************)
\* a conversion of an existing file whose ordinal prefix followed by
\* folderName is the file's own name
OwnNameCase ==
    /\ call.op = "makeFolder"
    /\ call.folderName # <<>>
    /\ NewFolderName(call.filename, call.folderName) = call.filename
    /\ IsFile(pre, MadeFrom)

\* C37: when the ordinal prefix of filename followed by folderName is
\* filename itself, the conflict check finds the source file, the call is
\* answered Conflict (409) and the source file is kept as it was: nothing
\* in the tree has changed.
C37_MakeFolderOwnName ==
    OwnNameCase =>
        /\ res.kind = "Conflict" /\ res.status = 409
        /\ \E c \in CallsOf("exists") : log[c].src = MadeFrom /\ c = Len(log)
        /\ Performed = {}
        /\ IsFile(fs, MadeFrom) /\ fs[MadeFrom] = pre[MadeFrom]
        /\ fs = pre

\* the conversion of the ordinal-named file 0001_a to a folder named a
C37_Witness ==
    /\ OwnNameCase
    /\ isOrdinalName(call.filename)
    /\ call.folderName = BaseOf(call.filename)
    /\ res.kind = "Conflict"

(***************************************************************************)
(* C38  Handlers run to completion: requests are serialised.               *)
(***************************************************************************)
\* the requests whose handler has ended
DoneTasks == {i \in 1..Len(tasks) : tasks[i].state = "done"}

\* the orders in which the requests of D can be executed one after another
OrdersOf(D) ==
    IF D = {} THEN {<<>>}
    ELSE {l \in DistinctLists(D, Cardinality(D)) : Len(l) = Cardinality(D)}

\* the tree after the requests of order, executed one after another from f
RECURSIVE SerialFrom(_, _, _)
SerialFrom(f, order, i) ==
    IF i > Len(order) THEN f
    ELSE SerialFrom(Dispatch(f, tasks[order[i]].b).fs, order, i + 1)

====
